---------------------------- MODULE Spec2Model ----------------------------
(***************************************************************************)
(* The REST surface of the trusted-setup coordinator                        *)
(* (phase1-coordinator/src/rest.rs): request guards, the LazyJson data      *)
(* guard, the cohort-token check and the handlers that mutate the           *)
(* coordinator behind its readers-writer lock.                              *)
(*                                                                          *)
(* Text is a sequence of one-character strings; Option<T> is a set of at    *)
(* most one element.                                                        *)
(***************************************************************************)
EXTENDS Integers, Sequences, FiniteSets, TLC

(* ------------------------------ bounds -------------------------------- *)

\* Largest cohort index the ceremony clock reaches.
MaxCohort == 2
\* Range of the modelled digest (the hash is computed modulo this).
HashMod == 4093

(* --------------------------- text helpers ------------------------------ *)

None == {}
Some(v) == {v}
The(o) == CHOOSE x \in o : TRUE

Min(a, b) == IF a < b THEN a ELSE b

Rep(c, n) == [i \in 1..n |-> c]

Digits == <<"0", "1", "2", "3", "4", "5", "6", "7", "8", "9">>

B64Alphabet ==
    <<"A", "B", "C", "D", "E", "F", "G", "H", "I", "J", "K", "L", "M",
      "N", "O", "P", "Q", "R", "S", "T", "U", "V", "W", "X", "Y", "Z",
      "a", "b", "c", "d", "e", "f", "g", "h", "i", "j", "k", "l", "m",
      "n", "o", "p", "q", "r", "s", "t", "u", "v", "w", "x", "y", "z",
      "0", "1", "2", "3", "4", "5", "6", "7", "8", "9", "+", "/">>

B64Chars == {B64Alphabet[i] : i \in 1..Len(B64Alphabet)}

\* Every other byte that occurs in a modelled request.
Punct == <<"\"", "[", "]", "{", "}", ":", "<", ">", "=", "-", "!", " ">>

ByteTable == B64Alphabet \o Punct

ByteCodes ==
    [c \in {ByteTable[i] : i \in 1..Len(ByteTable)} |->
        CHOOSE i \in 1..Len(ByteTable) : ByteTable[i] = c]

Code(c) == ByteCodes[c]

DigitChars == {"0", "1", "2", "3", "4", "5", "6", "7", "8", "9"}

IsDigit(c) == c \in DigitChars

DigitVal(c) == (CHOOSE i \in 1..10 : Digits[i] = c) - 1

\* usize as Display prints it: decimal, no sign, no leading zero.
RECURSIVE DecStr(_)
DecStr(n) == IF n < 10 THEN <<Digits[n + 1]>>
             ELSE DecStr(n \div 10) \o <<Digits[(n % 10) + 1]>>

RECURSIVE DecVal(_)
DecVal(s) == IF Len(s) = 0 THEN 0
             ELSE 10 * DecVal(SubSeq(s, 1, Len(s) - 1)) + DigitVal(s[Len(s)])

\* str::parse::<usize>: Some(n) for a non-empty run of decimal digits.
ParseUsize(s) ==
    IF Len(s) > 0 /\ \A i \in 1..Len(s) : IsDigit(s[i])
    THEN Some(DecVal(s)) ELSE None

\* str::split_once(c): the text after the first occurrence of c.
AfterFirst(s, c) ==
    IF \E i \in 1..Len(s) : s[i] = c
    THEN LET i == CHOOSE j \in 1..Len(s) :
                     s[j] = c /\ \A k \in 1..(j - 1) : s[k] # c
         IN  Some(SubSeq(s, i + 1, Len(s)))
    ELSE None

(* ------------------------------ digest --------------------------------- *)

\* The digest of the first n bytes: a rolling hash into 0..HashMod-1.
RECURSIVE Roll(_, _)
Roll(bytes, n) ==
    IF n = 0 THEN 7 ELSE (31 * Roll(bytes, n - 1) + Code(bytes[n])) % HashMod

\* Sha256::new().update(bytes).finalize()
Sha256(bytes) == Roll(bytes, Len(bytes))

\* base64::encode of a digest: two characters of the base64 alphabet.
Base64Encode(h) == <<B64Alphabet[((h \div 64) % 64) + 1], B64Alphabet[(h % 64) + 1]>>

\* base64::decode(s).is_ok()
Base64DecodeOk(s) == \A i \in 1..Len(s) : s[i] \in B64Chars

(* ---------------------- signature (authentication) --------------------- *)

\* A detached signature names its signer and the exact message signed.
Sign(key, msg) == [signer |-> key, msg |-> msg]

\* Production.verify(pubkey, message, signature)
Verify(pubkey, msg, sig) == sig = Sign(pubkey, msg)

(* ------------------------------ errors --------------------------------- *)

Txt(s) == <<s>>

BODY_DIGEST_HEADER == Txt("Digest")
PUBKEY_HEADER == Txt("ATS-Pubkey")
SIGNATURE_HEADER == Txt("ATS-Signature")
CONTENT_LENGTH_HEADER == Txt("Content-Length")
UNKNOWN == Txt("Unknown")

\* A ResponseError value: its variant and the variant's fields.
Error(kind, args) == [kind |-> kind, args |-> args]

\* ResponseError::respond_to: the HTTP status of each variant.
ResponseCode(e) ==
    CASE e.kind = "CeremonyIsOver" -> 401
      [] e.kind = "InvalidHeader" -> 400
      [] e.kind = "InvalidSecret" -> 401
      [] e.kind = "InvalidSignature" -> 400
      [] e.kind = "InvalidToken" -> 401
      [] e.kind = "InvalidTokenFormat" -> 400
      [] e.kind = "MismatchingChecksum" -> 400
      [] e.kind = "MissingRequiredHeader" ->
             IF e.args[1] = CONTENT_LENGTH_HEADER THEN 411 ELSE 400
      [] e.kind = "MissingSigningKey" -> 400
      [] e.kind = "SerdeError" -> 422
      [] e.kind = "UnauthorizedParticipant" -> 401
      [] e.kind = "WrongDigestEncoding" -> 400
      [] OTHER -> 500

Ok(v) == [ok |-> TRUE, v |-> v]
Err(e) == [ok |-> FALSE, e |-> e]

(* --------------------------- request headers --------------------------- *)

\* RequestContent::to_header: what a client sends for a body.
to_header(body) ==
    [clen   |-> DecStr(Len(body)),
     digest |-> <<"s", "h", "a", "-", "2", "5", "6", "=">>
                    \o Base64Encode(Sha256(body))]

\* RequestContent::try_from_header(len, digest)
try_from_header(len, digest) ==
    LET d == AfterFirst(digest, "=")
    IN  IF d = None THEN Err(Error("InvalidHeader", <<BODY_DIGEST_HEADER>>))
        ELSE IF ~Base64DecodeOk(The(d)) THEN Err(Error("WrongDigestEncoding", <<>>))
        ELSE IF ParseUsize(len) = None
             THEN Err(Error("InvalidHeader", <<CONTENT_LENGTH_HEADER>>))
        ELSE Ok([len |-> The(ParseUsize(len)), digest |-> The(d)])

Method(ep) ==
    IF ep \in {"lock_chunk", "stop", "update", "verify", "queue_status"}
    THEN "GET" ELSE "POST"

\* TryFrom<&Request> for SignatureHeaders
SignatureHeaders_try_from(req) ==
    IF req.pubkey = None THEN Err(Error("InvalidHeader", <<PUBKEY_HEADER>>))
    ELSE IF req.sig = None THEN Err(Error("InvalidHeader", <<SIGNATURE_HEADER>>))
    ELSE IF Method(req.ep) = "POST" /\ req.digest # None
         THEN IF req.clen = None
              THEN Err(Error("InvalidHeader", <<CONTENT_LENGTH_HEADER>>))
              ELSE LET c == try_from_header(The(req.clen), The(req.digest))
                   IN  IF c.ok
                       THEN Ok([pubkey |-> The(req.pubkey), content |-> Some(c.v),
                                signature |-> req.sig])
                       ELSE c
    ELSE Ok([pubkey |-> The(req.pubkey), content |-> None, signature |-> req.sig])

\* SignatureHeaders::to_string: the message the signature is computed on.
to_string(h) ==
    IF h.content # None
    THEN h.pubkey \o DecStr(The(h.content).len) \o The(h.content).digest
    ELSE h.pubkey

\* SignatureHeaders::try_verify_signature
try_verify_signature(h) ==
    IF h.signature # None
    THEN Ok(Verify(h.pubkey, to_string(h), The(h.signature)))
    ELSE Err(Error("MissingSigningKey", <<>>))

\* A verification that lets every signature through.
verify_signature_unchecked(req) ==
    IF req.pubkey = None THEN Err(Error("InvalidHeader", <<PUBKEY_HEADER>>))
    ELSE Ok(The(req.pubkey))

\* Request::verify_signature: the pubkey of the participant, or the error.
verify_signature(req) ==
    LET h == SignatureHeaders_try_from(req)
    IN  IF ~h.ok THEN h
        ELSE LET r == try_verify_signature(h.v)
             IN  IF ~r.ok THEN r
                 ELSE IF r.v THEN Ok(h.v.pubkey)
                 ELSE Err(Error("InvalidSignature", <<>>))

(* ------------------------------- tokens -------------------------------- *)

\* TOKEN_REGEX = ^[[:xdigit:]]{20}$ : the length the regex demands.
TokenLen == 20

XDigit == {"0", "1", "2", "3", "4", "5", "6", "7", "8", "9",
           "a", "b", "c", "d", "e", "f", "A", "B", "C", "D", "E", "F"}

\* Regex::new(TOKEN_REGEX).is_match(token)
regex_is_match_any_length(token) == \A i \in 1..Len(token) : token[i] \in XDigit

regex_is_match(token) ==
    Len(token) = TokenLen /\ \A i \in 1..Len(token) : token[i] \in XDigit

TokA == Rep("a", TokenLen)
TokB == Rep("B", TokenLen)
TokC == Rep("1", TokenLen - 1) \o <<"f">>
TokD == Rep("d", TokenLen)
TokShort == Rep("a", TokenLen - 1)
TokLong == Rep("a", TokenLen + 1)
TokZ == Rep("z", TokenLen)

\* The token sets the coordinator starts with (tokens.zip as deployed).
InitialTokens == <<{TokA, TokB}, {TokC}>>

\* The archives an operator may post: index -> the cohorts' token sets.
Archives ==
    <<  InitialTokens,               \* unchanged
        <<{TokA, TokB}, {TokD}>>,    \* a future cohort edited
        <<{TokA}, {TokC}>>,          \* cohort 0 lost a token
        <<{TokA, TokD}, {TokC}>>,    \* cohort 0 same size, one token swapped
        <<{TokA, TokB}>>,            \* cohort 1 removed
        <<{TokA, TokB}, {TokC}, {TokD}>>  \* a cohort appended
    >>

\* CoordinatorState::load_tokens_from_bytes over the files of the zip archive
\* whose bytes are `bytes`; None when ZipArchive::new rejects the bytes.
load_tokens_from_bytes(bytes) ==
    LET n == ParseUsize(bytes)
    IN  IF n # None /\ The(n) \in 1..Len(Archives) THEN Some(Archives[The(n)]) ELSE None

(* ------------------------------- state --------------------------------- *)

VARIABLES
    cohort,      \* CoordinatorState::get_cohort(): index on the ceremony timeline
    tokens,      \* CoordinatorState.tokens : Vec<HashSet<String>>
    queue,       \* queued contributors, admission order
    current,     \* Option: the current contributor
    locked,      \* the current contributor holds the chunk lock
    finished,    \* Option: the finished contributor of the current round
    pending,     \* a pending verification exists for the current round
    banned,      \* banned participants
    dropped,     \* dropped participants
    round,       \* current round height
    stopped,     \* shutdown() has run
    halted,      \* the server was told to shut down (Shutdown::notify)
    infos,       \* contribution infos written, as <<public_key, round>>
    stored,      \* the contributions the storage layer holds: round, validity
    s3,          \* the keys of the objects in the object store
    zipFile,     \* content of TOKENS_ZIP_FILE
    tokensDir,   \* content of the directory TOKENS_PATH
    req,         \* per task: the request being served
    pc,          \* per task: where its handler stands
    loc,         \* per task: the handler's locals
    resp,        \* per task: Option of the response sent
    held         \* per task: the guard it holds on the coordinator's RwLock

coord == <<tokens, queue, current, locked, finished, pending, banned, dropped,
           round, stopped, infos, stored>>
ceremony == <<queue, current, locked, finished, pending, banned, dropped, round,
              stopped, infos, stored>>
disk == <<zipFile, tokensDir>>
vars == <<cohort, coord, halted, s3, disk, req, pc, loc, resp, held>>

\* Concurrent request tasks, and the largest round modelled.
Tasks == {1, 2}
MaxRound == 2

KeyA == Txt("A")
KeyB == Txt("B")
\* environment().coordinator_verifiers()[0]
VerifierKey == Txt("V")

(* ------------------- coordinator (contract of §4.2, §4.4) --------------- *)

\* CoordinatorState::tokens(cohort) = self.tokens.get(cohort)
tokens_get(toks, c) == IF c + 1 <= Len(toks) THEN Some(toks[c + 1]) ELSE None

InQueue(p) == \E i \in 1..Len(queue) : queue[i].p = p

is_current_contributor(p) == current = Some(p)
is_banned_participant(p) == p \in banned
is_dropped_participant(p) == p \in dropped
is_finished_contributor(p) == finished = Some(p)

\* CoordinatorState::add_to_queue_checks: Some(cause) when admission is refused.
add_to_queue_unchecked(p) == None

add_to_queue_checks(p) ==
    IF p \in banned THEN Some(Txt("participant is banned"))
    ELSE IF p \in dropped THEN Some(Txt("participant was dropped"))
    ELSE IF InQueue(p) THEN Some(Txt("participant is already in the queue"))
    ELSE IF current = Some(p) \/ finished = Some(p)
         THEN Some(Txt("participant is already contributing"))
    ELSE None

(* --------------------------- request guards ---------------------------- *)

\* Request-local cache (Request::local_cache): one slot per Rust type, set once.
EmptyCache == [strRef |-> None, string |-> None, pair |-> None, part |-> None]

Success(v) == [code |-> 0, v |-> v]
Failure(code, e, cache) == [code |-> code, e |-> e, cache |-> cache]

\* Which request guard and which data guard each route declares.
Guard(ep) ==
    CASE ep = "join_queue" -> "NewParticipant"
      [] ep \in {"lock_chunk", "challenge", "upload_chunk", "contribute_chunk",
                 "contribution_info"} -> "CurrentContributor"
      [] ep \in {"heartbeat", "queue_status"} -> "Participant"
      [] ep \in {"update_cohorts", "stop", "update", "verify"} -> "ServerAuth"

DataType(ep) ==
    CASE ep = "join_queue" -> "String"
      [] ep \in {"challenge", "upload_chunk"} -> "u64"
      [] ep = "contribute_chunk" -> "PostChunkRequest"
      [] ep = "contribution_info" -> "ContributionInfo"
      [] ep = "update_cohorts" -> "VecU8"
      [] OTHER -> "none"

Uri(ep) == Txt(ep)

Unauthorized(p, ep, cause) ==
    Failure(453, Error("UnauthorizedParticipant", <<p, Uri(ep), cause>>),
            [EmptyCache EXCEPT !.part = Some(p), !.pair = Some(<<Uri(ep), cause>>)])

\* FromRequest for CurrentContributor: the cause reported to a non-current sender.
NotCurrentCauseGeneric(p) == Txt("Participant is not the current contributor")

NotCurrentCause(p) ==
    IF is_banned_participant(p)
    THEN Txt("Participant has been banned from the ceremony")
    ELSE IF is_dropped_participant(p)
    THEN Txt("Participant has been dropped from the ceremony")
    ELSE Txt("Participant is not the current contributor")

\* The role check each guard makes once the signature has verified.
RoleCheck(ep, pubkey) ==
    CASE Guard(ep) = "Participant" -> Success(pubkey)
      [] Guard(ep) = "NewParticipant" ->
            IF add_to_queue_checks(pubkey) # None
            THEN Unauthorized(pubkey, ep, The(add_to_queue_checks(pubkey)))
            ELSE Success(pubkey)
      [] Guard(ep) = "CurrentContributor" ->
            IF ~is_current_contributor(pubkey)
            THEN Unauthorized(pubkey, ep, NotCurrentCause(pubkey))
            ELSE Success(pubkey)
      [] Guard(ep) = "ServerAuth" ->
            IF pubkey # VerifierKey
            THEN Unauthorized(pubkey, ep, Txt("Not the coordinator's verifier"))
            ELSE Success(pubkey)

\* FromRequest::from_request of Participant, NewParticipant, CurrentContributor
\* and ServerAuth: signature first (v: what verify_signature returned), then
\* the role.
from_request(r, v) ==
    IF ~v.ok THEN Failure(452, v.e, EmptyCache)
    ELSE RoleCheck(r.ep, v.v)

(* ----------------------------- data guard ------------------------------ *)

Quote == "\""

\* serde_json::from_slice::<T>(body): Some(value), or None on a parse error.
from_slice(body, type) ==
    LET n == Len(body)
        inner == SubSeq(body, 2, n - 1)
    IN  CASE type = "String" ->
               IF n >= 2 /\ body[1] = Quote /\ body[n] = Quote
                  /\ \A i \in 1..Len(inner) : inner[i] # Quote
               THEN Some(inner) ELSE None
          [] type = "u64" ->
               IF ParseUsize(body) # None THEN Some(The(ParseUsize(body))) ELSE None
          [] type = "VecU8" ->
               IF n >= 2 /\ body[1] = "[" /\ body[n] = "]"
               THEN Some(inner) ELSE None
          [] type = "PostChunkRequest" ->
               IF n >= 3 /\ body[1] = "<" /\ body[n] = ">" /\ ParseUsize(inner) # None
               THEN Some([round_height |-> The(ParseUsize(inner))]) ELSE None
          [] type = "ContributionInfo" ->
               IF n >= 5 /\ body[1] = "{" /\ body[n] = "}"
                  /\ AfterFirst(inner, ":") # None
                  /\ ParseUsize(The(AfterFirst(inner, ":"))) # None
               THEN LET rd == The(AfterFirst(inner, ":"))
                    IN  Some([public_key |-> SubSeq(inner, 1, Len(inner) - Len(rd) - 1),
                              ceremony_round |-> The(ParseUsize(rd))])
               ELSE None

\* data.open(len).into_bytes(): at most `len` bytes of the body are read.
ReadBody(r, len) == SubSeq(r.body, 1, Min(len, Len(r.body)))

\* The digest comparison of from_data.
DigestNeverDiffers(actual, expected) == FALSE
DigestDiffers(actual, expected) == actual # expected

\* FromData for LazyJson<T>
from_data(r, type) ==
    IF r.digest = None
    THEN Failure(454, Error("MissingRequiredHeader", <<BODY_DIGEST_HEADER>>),
                 [EmptyCache EXCEPT !.string = Some(BODY_DIGEST_HEADER)])
    ELSE IF r.clen = None
    THEN Failure(454, Error("MissingRequiredHeader", <<CONTENT_LENGTH_HEADER>>),
                 [EmptyCache EXCEPT !.string = Some(CONTENT_LENGTH_HEADER)])
    ELSE LET c == try_from_header(The(r.clen), The(r.digest))
         IN  IF ~c.ok
             THEN Failure(457, c.e,
                     [EmptyCache EXCEPT !.strRef =
                         Some(IF c.e.kind = "InvalidHeader" THEN c.e.args[1] ELSE UNKNOWN)])
             ELSE IF r.readFails
             THEN Failure(512, Error("IoError", <<Txt("read")>>),
                          [EmptyCache EXCEPT !.string = Some(Txt("read"))])
             ELSE LET body == ReadBody(r, c.v.len)
                      digest == Base64Encode(Sha256(body))
                  IN  IF DigestDiffers(digest, c.v.digest)
                      THEN Failure(456,
                              Error("MismatchingChecksum", <<The(r.digest), c.v.digest>>),
                              [EmptyCache EXCEPT
                                  !.pair = Some(<<The(r.digest), c.v.digest>>)])
                      ELSE IF from_slice(body, type) = None
                      THEN Failure(455, Error("SerdeError", <<Txt("parse")>>),
                                   [EmptyCache EXCEPT !.string = Some(Txt("parse"))])
                      ELSE Success([value |-> The(from_slice(body, type)),
                                    bytes |-> body, digest |-> digest])

(* ------------------------------ catchers ------------------------------- *)

OrUnknown(o) == IF o = None THEN UNKNOWN ELSE The(o)

\* The catcher registered for each custom status builds the ResponseError sent.
Catch(f) ==
    CASE f.code = 452 -> Error("InvalidSignature", <<>>)
      [] f.code = 453 ->
            LET pr == IF f.cache.pair = None THEN <<UNKNOWN, UNKNOWN>> ELSE The(f.cache.pair)
            IN  Error("UnauthorizedParticipant", <<OrUnknown(f.cache.part), pr[1], pr[2]>>)
      [] f.code = 454 -> Error("MissingRequiredHeader", <<OrUnknown(f.cache.strRef)>>)
      [] f.code = 455 -> Error("SerdeError", <<OrUnknown(f.cache.string)>>)
      [] f.code = 456 ->
            LET pr == IF f.cache.pair = None THEN <<UNKNOWN, UNKNOWN>> ELSE The(f.cache.pair)
            IN  Error("MismatchingChecksum", <<pr[1], pr[2]>>)
      [] f.code = 457 -> Error("InvalidHeader", <<OrUnknown(f.cache.strRef)>>)
      [] f.code = 512 -> Error("IoError", <<OrUnknown(f.cache.string)>>)

\* The response a client sees: the error, its HTTP status.
Respond(e) == [kind |-> e.kind, status |-> ResponseCode(e), args |-> e.args]
RespondOk == [kind |-> "Ok", status |-> 200, args |-> <<>>]
\* Ok(Json(value)).
RespondJson(value) == [kind |-> "Ok", status |-> 200, args |-> value]

(* --------------------------- serving a request ------------------------- *)

\* The guards of a route in the order Rocket runs them: the request guards,
\* then the data guard of the body.
GuardsDataFirst(r, v, d) ==
    IF ~v.ok THEN Failure(452, v.e, EmptyCache)
    ELSE IF DataType(r.ep) # "none" /\ d.code # 0 THEN d
    ELSE IF RoleCheck(r.ep, v.v).code # 0 THEN RoleCheck(r.ep, v.v)
    ELSE Success([pubkey |-> v.v,
                  data |-> IF DataType(r.ep) = "none" THEN None ELSE Some(d.v)])

\* v: what verify_signature returns on r; d: what the data guard returns on r.
Guards(r, v, d) ==
    LET g == from_request(r, v)
    IN  IF g.code # 0 THEN g
        ELSE IF DataType(r.ep) = "none" THEN Success([pubkey |-> g.v, data |-> None])
        ELSE IF d.code # 0 THEN d
        ELSE Success([pubkey |-> g.v, data |-> Some(d.v)])

NoRequest ==
    [ep |-> "none", pubkey |-> None, sig |-> None, digest |-> None, clen |-> None,
     body |-> <<>>, readFails |-> FALSE]

\* The statements of join_queue in program order: token_check, then
\* add_to_queue under the write lock.
JoinQueueAddFirst == <<"jq_add", "jq_token">>
JoinQueueSteps == <<"jq_token", "jq_add">>

\* The statements of update_cohorts in program order: the comparison under the
\* read lock, the blocking task that persists, update_tokens under the write
\* lock.
UpdateCohortsPersistFirst == <<"uc_persist", "uc_check", "uc_install">>
UpdateCohortsSteps == <<"uc_check", "uc_persist", "uc_install">>

\* The step that follows step p in the sequence steps; "done" after the last.
StepAfter(steps, p) ==
    LET i == CHOOSE j \in 1..Len(steps) : steps[j] = p
    IN  IF i < Len(steps) THEN steps[i + 1] ELSE "done"

\* Where each handler starts.
Entry(ep) ==
    CASE ep = "join_queue" -> JoinQueueSteps[1]
      [] ep = "lock_chunk" -> "lc_lock"
      [] ep = "contribute_chunk" -> "cc_download"
      [] ep = "challenge" -> "ch_head"
      [] ep = "upload_chunk" -> "cu_urls"
      [] ep = "heartbeat" -> "hb_write"
      [] ep = "queue_status" -> "qs_current"
      [] ep = "contribution_info" -> "ci_check"
      [] ep = "update_cohorts" -> UpdateCohortsSteps[1]
      [] ep = "stop" -> "st_write"
      [] ep = "update" -> "up_write"
      [] ep = "verify" -> "vf_read"

\* A handler's locals.  `entered`, `wrote` and the `at...` fields only record
\* what the task did and saw; no handler reads them.
NoLoc ==
    [part |-> <<>>, val |-> <<>>, bytes |-> <<>>, digest |-> <<>>,
     entered |-> FALSE, wrote |-> FALSE, files |-> {},
     chkCohort |-> 0, chkTokens |-> <<>>, actCohort |-> 0, actTokens |-> <<>>,
     installed |-> FALSE, calls |-> <<>>, acquired |-> <<>>, verdict |-> "none",
     target |-> None, actRound |-> 0, actCurrent |-> None,
     attempt |-> 0, slept |-> 0, store |-> <<>>, last |-> 200,
     existed |-> FALSE, message |-> <<>>, judged |-> None,
     member |-> FALSE]

Done(s, r) ==
    /\ pc' = [pc EXCEPT ![s] = "done"]
    /\ resp' = [resp EXCEPT ![s] = Some(r)]

Goto(s, p) ==
    /\ pc' = [pc EXCEPT ![s] = p]
    /\ UNCHANGED resp

\* The handler goes on to step p, or returns Ok when p is "done".
Continue(s, p) == IF p = "done" THEN Done(s, RespondOk) ELSE Goto(s, p)

\* The guard on the coordinator's RwLock under which each step of a handler
\* runs: write()/write_owned(), read()/read_owned(), or none.
LockEarly(p) ==
    CASE p \in {"jq_add", "lc_lock", "cc_download", "cc_write", "hb_write", "ci_write",
                "st_write", "up_write", "vf_verify", "vf_reset", "uc_install"} -> "write"
      [] p \in {"jq_token", "uc_check", "ci_check", "vf_read", "ch_read",
                "qs_current", "qs_queue"} -> "read"
      [] OTHER -> "none"

LockChallengeWrite(p) ==
    CASE p \in {"jq_add", "lc_lock", "cc_write", "hb_write", "ci_write",
                "st_write", "up_write", "vf_verify", "vf_reset", "uc_install",
                "ch_read"} -> "write"
      [] p \in {"jq_token", "uc_check", "ci_check", "vf_read",
                "qs_current", "qs_queue"} -> "read"
      [] OTHER -> "none"

LockSharedHeartbeat(p) ==
    CASE p \in {"jq_add", "lc_lock", "cc_write", "ci_write",
                "st_write", "up_write", "vf_verify", "vf_reset", "uc_install"} -> "write"
      [] p \in {"jq_token", "uc_check", "ci_check", "vf_read", "ch_read", "hb_write",
                "qs_current", "qs_queue"} -> "read"
      [] OTHER -> "none"

Lock(p) ==
    CASE p \in {"jq_add", "lc_lock", "cc_write", "hb_write", "ci_write",
                "st_write", "up_write", "vf_verify", "vf_reset", "uc_install"} -> "write"
      [] p \in {"jq_token", "uc_check", "ci_check", "vf_read", "ch_read",
                "qs_current", "qs_queue"} -> "read"
      [] OTHER -> "none"

\* Whether the guard a task holds is dropped when step p ends (a guard kept
\* past its step lives until the handler returns).
ReleasesAtReturn(p) == p \notin {"uc_check", "uc_persist"}
Releases(p) == TRUE

\* tokio::sync::RwLock: a write guard is granted when nobody holds a guard, a
\* read guard when nobody holds the write guard.
Granted(s, mode) ==
    IF mode = "write" THEN \A t \in Tasks : held[t] = "none"
    ELSE \A t \in Tasks : held[t] # "write"

\* Task s holds the guard its step runs under.
Holding(s) == Lock(pc[s]) = "none" \/ held[s] = Lock(pc[s])

\* Task s obtains the guard of its next step.
Acquire(s) ==
    /\ pc[s] \notin {"idle", "done"}
    /\ Lock(pc[s]) # "none"
    /\ held[s] # Lock(pc[s])
    /\ Granted(s, Lock(pc[s]))
    /\ held' = [held EXCEPT ![s] = Lock(pc[s])]
    /\ loc' = [loc EXCEPT ![s].acquired = Append(@, Lock(pc[s]))]
    /\ UNCHANGED <<cohort, coord, halted, s3, disk, req, pc, resp>>

\* The guard of the step that ends is dropped: at a return, or where the code
\* drops it.
Unlock(s) ==
    held' = [held EXCEPT ![s] =
                IF pc'[s] = "done" \/ Releases(pc[s]) THEN "none" ELSE held[s]]

\* The request guards read the coordinator under a read guard once the
\* signature has verified (Participant reads nothing).
NeedsRead(r, v) == v.ok /\ Guard(r.ep) # "Participant"

\* A request arrives at an idle task and passes through the route's guards.
\* sigs and datas hold, for each request, what verify_signature and the data
\* guard return on it: neither reads the coordinator.
Serve(s, r, sigs, datas) ==
    /\ pc[s] = "idle"
    /\ ~halted
    /\ NeedsRead(r, sigs[r]) => Granted(s, "read")
    /\ req' = [req EXCEPT ![s] = r]
    /\ LET g == Guards(r, sigs[r], datas[r])
       IN  IF g.code # 0
           THEN /\ pc' = [pc EXCEPT ![s] = "done"]
                /\ resp' = [resp EXCEPT ![s] = Some(Respond(Catch(g)))]
                /\ loc' = [loc EXCEPT ![s] = NoLoc]
           ELSE /\ pc' = [pc EXCEPT ![s] = Entry(r.ep)]
                /\ resp' = [resp EXCEPT ![s] = None]
                /\ loc' = [loc EXCEPT ![s] =
                       [NoLoc EXCEPT
                          !.part = g.v.pubkey,
                          !.entered = TRUE,
                          !.val = IF g.v.data = None THEN <<>> ELSE The(g.v.data).value,
                          !.bytes = IF g.v.data = None THEN <<>> ELSE The(g.v.data).bytes,
                          !.digest = IF g.v.data = None THEN <<>> ELSE The(g.v.data).digest]]
    /\ UNCHANGED <<cohort, coord, halted, s3, disk, held>>

\* The response is out; the task is free for the next request.
Retire(s) ==
    /\ pc[s] = "done"
    /\ pc' = [pc EXCEPT ![s] = "idle"]
    /\ req' = [req EXCEPT ![s] = NoRequest]
    /\ loc' = [loc EXCEPT ![s] = NoLoc]
    /\ resp' = [resp EXCEPT ![s] = None]
    /\ UNCHANGED <<cohort, coord, halted, s3, disk, held>>

(* ------------------------------ join_queue ----------------------------- *)

\* token_check(coordinator, token)
token_check_set_first(token) ==
    IF tokens_get(tokens, cohort) = None THEN Err(Error("CeremonyIsOver", <<>>))
    ELSE IF ~regex_is_match(token) THEN Err(Error("InvalidTokenFormat", <<>>))
    ELSE IF token \notin The(tokens_get(tokens, cohort))
         THEN Err(Error("InvalidToken", <<DecStr(cohort)>>))
    ELSE Ok(TRUE)

token_check(token) ==
    IF ~regex_is_match(token) THEN Err(Error("InvalidTokenFormat", <<>>))
    ELSE IF tokens_get(tokens, cohort) = None THEN Err(Error("CeremonyIsOver", <<>>))
    ELSE IF token \notin The(tokens_get(tokens, cohort))
         THEN Err(Error("InvalidToken", <<DecStr(cohort)>>))
    ELSE Ok(TRUE)

\* join_queue up to the `?` on token_check (read lock inside token_check).
JoinTokenCheck(s) ==
    /\ pc[s] = "jq_token"
    /\ Holding(s)
    /\ LET t == token_check(loc[s].val)
       IN  IF ~t.ok
           THEN Done(s, Respond(t.e))
           ELSE Continue(s, StepAfter(JoinQueueSteps, "jq_token"))
    /\ loc' = [loc EXCEPT ![s].chkCohort = cohort, ![s].chkTokens = tokens]
    /\ UNCHANGED <<cohort, coord, halted, s3, disk, req>>
    /\ Unlock(s)

\* Coordinator::add_to_queue(participant, ip, reliability) under the write lock.
JoinAdd(s) ==
    /\ pc[s] = "jq_add"
    /\ Holding(s)
    /\ IF add_to_queue_checks(loc[s].part) # None
       THEN /\ Done(s, Respond(Error("CoordinatorError",
                                     <<The(add_to_queue_checks(loc[s].part))>>)))
            /\ UNCHANGED queue
       ELSE /\ queue' = Append(queue, [p |-> loc[s].part, score |-> 10])
            /\ Continue(s, StepAfter(JoinQueueSteps, "jq_add"))
    /\ loc' = [loc EXCEPT ![s].wrote = (add_to_queue_checks(loc[s].part) = None),
                          ![s].calls = Append(@, "add_to_queue"),
                          ![s].actCohort = cohort, ![s].actTokens = tokens]
    /\ UNCHANGED <<cohort, tokens, current, locked, finished, pending, banned,
                   dropped, round, stopped, infos, stored, halted, s3, disk, req>>
    /\ Unlock(s)

(* ---------------------------- update_cohorts --------------------------- *)

\* The comparison of the new tokens of the current cohort with the old ones.
CohortCheckSubset(newTokens, oldTokens, c) ==
    IF tokens_get(newTokens, c) # None /\ The(tokens_get(newTokens, c)) \ oldTokens = {}
    THEN "ok" ELSE "InvalidNewTokens"

CohortCheck(newTokens, oldTokens, c) ==
    IF tokens_get(newTokens, c) # None
       /\ Cardinality(The(tokens_get(newTokens, c))) = Cardinality(oldTokens)
    THEN IF The(tokens_get(newTokens, c)) \ oldTokens # {}
         THEN "InvalidNewTokens" ELSE "ok"
    ELSE "InvalidNewTokens"

\* update_cohorts: the archive is opened and read, then compared under the
\* read lock.
UpdateCohortsCheck(s) ==
    /\ pc[s] = "uc_check"
    /\ Holding(s)
    /\ LET new == load_tokens_from_bytes(loc[s].val)
           old == tokens_get(tokens, cohort)
       IN  IF new = None
           THEN Done(s, Respond(Error("IoError", <<Txt("zip")>>)))
           ELSE IF old = None
           THEN Done(s, Respond(Error("CeremonyIsOver", <<>>)))
           ELSE IF CohortCheck(The(new), The(old), cohort) # "ok"
           THEN Done(s, Respond(Error("InvalidNewTokens", <<>>)))
           ELSE Continue(s, StepAfter(UpdateCohortsSteps, "uc_check"))
    /\ loc' = [loc EXCEPT ![s].chkCohort = cohort, ![s].chkTokens = tokens]
    /\ UNCHANGED <<cohort, coord, halted, s3, disk, req>>
    /\ Unlock(s)

\* The directory after zip.extract: the archive's files over what was there.
Extracted(new, old) ==
    [i \in 1..(IF Len(new) > Len(old) THEN Len(new) ELSE Len(old)) |->
        IF i <= Len(new) THEN new[i] ELSE old[i]]

\* update_cohorts: the blocking task that writes TOKENS_ZIP_FILE, removes the
\* old directory and extracts the archive.  `io` names the step that fails.
UpdateCohortsPersist(s, io, rmOk) ==
    /\ pc[s] = "uc_persist"
    /\ Holding(s)
    /\ load_tokens_from_bytes(loc[s].val) # None
    /\ LET new == The(load_tokens_from_bytes(loc[s].val))
           dirAfterRm == IF rmOk THEN <<>> ELSE tokensDir
       IN  CASE io = "open" ->
                  /\ Done(s, Respond(Error("IoError", <<Txt("open")>>)))
                  /\ UNCHANGED <<disk, loc>>
             [] io = "write" ->
                  /\ zipFile' = [bytes |-> <<>>, whole |-> FALSE]
                  /\ loc' = [loc EXCEPT ![s].files = {"zip"}]
                  /\ Done(s, Respond(Error("IoError", <<Txt("write")>>)))
                  /\ UNCHANGED tokensDir
             [] io = "extract" ->
                  /\ zipFile' = [bytes |-> loc[s].val, whole |-> TRUE]
                  /\ tokensDir' = dirAfterRm
                  /\ loc' = [loc EXCEPT ![s].files =
                                 IF rmOk THEN {"zip", "dir"} ELSE {"zip"}]
                  /\ Done(s, Respond(Error("IoError", <<Txt("extract")>>)))
             [] io = "none" ->
                  /\ zipFile' = [bytes |-> loc[s].val, whole |-> TRUE]
                  /\ tokensDir' = Extracted(new, dirAfterRm)
                  /\ loc' = [loc EXCEPT ![s].files = {"zip", "dir"}]
                  /\ Continue(s, StepAfter(UpdateCohortsSteps, "uc_persist"))
    /\ UNCHANGED <<cohort, coord, halted, s3, req>>
    /\ Unlock(s)

\* update_cohorts: Coordinator::update_tokens(new_tokens) under the write lock.
UpdateCohortsInstall(s) ==
    /\ pc[s] = "uc_install"
    /\ Holding(s)
    /\ tokens' = The(load_tokens_from_bytes(loc[s].val))
    /\ loc' = [loc EXCEPT ![s].wrote = TRUE, ![s].installed = TRUE,
                          ![s].calls = Append(@, "update_tokens"),
                          ![s].actCohort = cohort, ![s].actTokens = tokens]
    /\ Continue(s, StepAfter(UpdateCohortsSteps, "uc_install"))
    /\ UNCHANGED <<cohort, ceremony, halted, s3, disk, req>>
    /\ Unlock(s)

\* The ceremony clock passes into the next cohort.
AdvanceCohort ==
    /\ cohort < MaxCohort
    /\ cohort' = cohort + 1
    /\ UNCHANGED <<coord, halted, s3, disk, req, pc, loc, resp, held>>

(* ------------------------------ lock_chunk ----------------------------- *)

\* Coordinator::try_lock(participant) under the write lock.
LockChunk(s) ==
    /\ pc[s] = "lc_lock"
    /\ Holding(s)
    /\ IF current = Some(loc[s].part) /\ ~locked
       THEN /\ locked' = TRUE
            /\ loc' = [loc EXCEPT ![s].wrote = TRUE, ![s].calls = Append(@, "try_lock")]
            /\ Done(s, RespondOk)
       ELSE /\ UNCHANGED locked
            /\ loc' = [loc EXCEPT ![s].calls = Append(@, "try_lock")]
            /\ Done(s, Respond(Error("CoordinatorError", <<Txt("try_lock")>>)))
    /\ UNCHANGED <<cohort, tokens, queue, current, finished, pending, banned, dropped,
                   round, stopped, infos, stored, halted, s3, disk, req>>
    /\ Unlock(s)

(* ---------------------------- contribute_chunk ------------------------- *)

\* S3Ctx::get_contribution and the handlers: the keys of a round's objects.
ContributionKey(r) == Txt("round_") \o DecStr(r) \o Txt("/chunk_0/contribution_1.unverified")
SignatureKey(r) == ContributionKey(r) \o Txt(".signature")
ChallengeKey(r) == Txt("round_") \o DecStr(r) \o Txt("/chunk_0/contribution_0.verified")
ContributorsJson == Txt("contributors.json")

\* get_presigned_url of a GetObjectRequest or a PutObjectRequest.
Presigned(method, key) == [method |-> method, key |-> key]

\* The answers of the object store to a request: 200 for Ok, the status of a
\* RusotoError::Unknown, or 0 for an error of another variant (no HTTP status).
TransientStatus == {429, 500, 502, 503, 504}
OtherStatus == {403, 404}
NonHttp == 0
MAX_REQUEST_RETRY == 8
BACKOFF_SLEEP_TIME_MILLISECS == 100

\* What the object store may answer to request op on key.
StoreAnswers(op, key) ==
    TransientStatus \cup {403, NonHttp}
    \cup (IF op \in {"get_object", "head_object"}
          THEN (IF key \in s3 THEN {200} ELSE {404})
          ELSE {200})

\* The body of each retry loop of the gateway on an answer, with `attempt`
\* as the loop holds it: leave the loop, sleep and send again, or return the
\* error.
RetryEveryError(answer, attempt) ==
    IF answer = 200 THEN "ok"
    ELSE IF attempt >= MAX_REQUEST_RETRY THEN "fail" ELSE "retry"

RetryForever(answer, attempt) ==
    IF answer = 200 THEN "ok"
    ELSE IF answer \in TransientStatus THEN "retry"
    ELSE "fail"

RetryDecision(answer, attempt) ==
    IF answer = 200 THEN "ok"
    ELSE IF answer \in TransientStatus
    THEN IF attempt >= MAX_REQUEST_RETRY THEN "fail" ELSE "retry"
    ELSE "fail"

\* let sleep_time = 2u32.pow(attempt) * BACKOFF_SLEEP_TIME_MILLISECS; attempt
\* is below MAX_REQUEST_RETRY where a loop sleeps, far from the width of u32.
sleep_time(attempt) == 2^attempt * BACKOFF_SLEEP_TIME_MILLISECS

\* The locals of task s after it sent request op on key and got `answer`:
\* the request is logged with the milliseconds slept after it; on a retry the
\* loop has counted and slept.
Requested(l, op, key, answer) ==
    LET d == RetryDecision(answer, l.attempt)
    IN  [l EXCEPT !.store = Append(@, <<op, key, d,
                                        IF d = "retry" THEN sleep_time(l.attempt) ELSE 0>>),
                  !.last = answer,
                  !.attempt = IF d = "retry" THEN @ + 1 ELSE @,
                  !.slept = IF d = "retry" THEN @ + 1 ELSE @]

\* let mut attempt = 0u32 of a loop that starts.
NewLoop(l) == [l EXCEPT !.attempt = 0]

\* The requests op on key that a task's locals record.
Sent(l, op, key) ==
    Cardinality({i \in DOMAIN l.store : l.store[i][1] = op /\ l.store[i][2] = key})

\* A contributor PUTs its contribution and signature through presigned URLs.
Upload(r) ==
    /\ ContributionKey(r) \notin s3
    /\ s3' = s3 \cup {ContributionKey(r), SignatureKey(r)}
    /\ UNCHANGED <<cohort, coord, halted, disk, req, pc, loc, resp, held>>

\* contribute_chunk: S3Ctx::new, then S3Ctx::get_contribution(round_height),
\* before any lock: one request of get_object for the contribution.  The two
\* get_object of try_join! are taken one after the other.
ContributeDownload(s, answers, ctxOk) ==
    /\ pc[s] = "cc_download"
    /\ Holding(s)
    /\ IF ~ctxOk
       THEN /\ loc[s].store = <<>>
            /\ Done(s, Respond(Error("S3Error", <<Txt("Credentials")>>)))
            /\ UNCHANGED loc
       ELSE \E a \in StoreAnswers("get_object", ContributionKey(loc[s].val.round_height))
                       \cap answers :
               /\ loc' = [loc EXCEPT ![s] =
                      LET l == Requested(@, "get_object",
                                         ContributionKey(loc[s].val.round_height), a)
                      IN  IF RetryDecision(a, loc[s].attempt) = "ok" THEN NewLoop(l) ELSE l]
               /\ CASE RetryDecision(a, loc[s].attempt) = "ok" -> Goto(s, "cc_signature")
                    [] RetryDecision(a, loc[s].attempt) = "retry" -> Goto(s, "cc_download")
                    [] OTHER -> Done(s, Respond(Error("S3Error", <<Txt("DownloadError")>>)))
    /\ UNCHANGED <<cohort, coord, halted, s3, disk, req>>
    /\ Unlock(s)

\* get_object for the signature of the contribution.
ContributeSignature(s, answers) ==
    /\ pc[s] = "cc_signature"
    /\ Holding(s)
    /\ \E a \in StoreAnswers("get_object", SignatureKey(loc[s].val.round_height))
                  \cap answers :
          /\ loc' = [loc EXCEPT ![s] = Requested(@, "get_object",
                              SignatureKey(loc[s].val.round_height), a)]
          /\ CASE RetryDecision(a, loc[s].attempt) = "ok" -> Goto(s, "cc_write")
               [] RetryDecision(a, loc[s].attempt) = "retry" -> Goto(s, "cc_signature")
               [] OTHER -> Done(s, Respond(Error("S3Error", <<Txt("DownloadError")>>)))
    /\ UNCHANGED <<cohort, coord, halted, s3, disk, req>>
    /\ Unlock(s)

\* contribute_chunk: write_contribution, write_contribution_file_signature and
\* try_contribute in one blocking task under the write lock.  `sigOk`: the
\* downloaded signature file deserializes; `valid`: the downloaded contribution
\* is one the verifier accepts.
ContributeWrite(s, sigOk, valid) ==
    /\ pc[s] = "cc_write"
    /\ Holding(s)
    /\ stored' = {x \in stored : x.round # loc[s].val.round_height}
                  \cup {[round |-> loc[s].val.round_height, valid |-> valid]}
    /\ IF ~sigOk
       THEN /\ Done(s, Respond(Error("CoordinatorError", <<Txt("signature")>>)))
            /\ loc' = [loc EXCEPT ![s].wrote = TRUE,
                                  ![s].calls = Append(@, "write_contribution")]
            /\ UNCHANGED <<current, locked, finished, pending>>
       ELSE /\ loc' = [loc EXCEPT ![s].wrote = TRUE,
                          ![s].calls = @ \o <<"write_contribution",
                                              "write_contribution_file_signature",
                                              "try_contribute">>]
            /\ IF current = Some(loc[s].part) /\ locked
               THEN /\ finished' = current
                    /\ current' = None
                    /\ locked' = FALSE
                    /\ pending' = TRUE
                    /\ Done(s, RespondOk)
               ELSE /\ Done(s, Respond(Error("CoordinatorError", <<Txt("try_contribute")>>)))
                    /\ UNCHANGED <<current, locked, finished, pending>>
    /\ UNCHANGED <<cohort, tokens, queue, banned, dropped, round, stopped, infos,
                   halted, s3, disk, req>>
    /\ Unlock(s)

(* ------------------------------- heartbeat ----------------------------- *)

\* Coordinator::heartbeat(participant) under the write lock.
Heartbeat(s) ==
    /\ pc[s] = "hb_write"
    /\ Holding(s)
    /\ loc' = [loc EXCEPT ![s].wrote = TRUE, ![s].calls = Append(@, "heartbeat")]
    /\ IF InQueue(loc[s].part) \/ current = Some(loc[s].part)
       THEN Done(s, RespondOk)
       ELSE Done(s, Respond(Error("CoordinatorError", <<Txt("heartbeat")>>)))
    /\ UNCHANGED <<cohort, coord, halted, s3, disk, req>>
    /\ Unlock(s)

(* --------------------------- contribution_info ------------------------- *)

\* post_contribution_info: the two validations (the round under a read lock).
ContributionInfoCheck(s) ==
    /\ pc[s] = "ci_check"
    /\ Holding(s)
    /\ IF loc[s].val.public_key # loc[s].part
       THEN Done(s, Respond(Error("InvalidContributionInfo", <<Txt("public key")>>)))
       ELSE IF round # loc[s].val.ceremony_round
       THEN Done(s, Respond(Error("InvalidContributionInfo", <<Txt("round height")>>)))
       ELSE Goto(s, "ci_write")
    /\ UNCHANGED <<cohort, coord, halted, s3, disk, req, loc>>
    /\ Unlock(s)

\* post_contribution_info: write_contribution_info and the summary update
\* under the write lock.
ContributionInfoWrite(s) ==
    /\ pc[s] = "ci_write"
    /\ Holding(s)
    /\ infos' = infos \cup {<<loc[s].val.public_key, loc[s].val.ceremony_round>>}
    /\ loc' = [loc EXCEPT ![s].wrote = TRUE,
                  ![s].actRound = round,
                  ![s].actCurrent = current,
                  ![s].calls = @ \o <<"write_contribution_info",
                                      "update_contribution_summary">>]
    /\ Done(s, RespondOk)
    /\ UNCHANGED <<cohort, tokens, queue, current, locked, finished, pending, banned,
                   dropped, round, stopped, stored, halted, s3, disk, req>>
    /\ Unlock(s)

(* ------------------------ challenge and upload URLs -------------------- *)

\* Coordinator::get_challenge(round_height, 0, 0, true): whether storage holds
\* the challenge of the round.
get_challenge(r) == 1 <= r /\ r <= round

\* get_challenge_url: S3Ctx::new, then S3Ctx::get_challenge_url(key): one
\* head_object, whose every error counts as absence.
ChallengeHead(s, answers, ctxOk) ==
    /\ pc[s] = "ch_head"
    /\ Holding(s)
    /\ IF ~ctxOk
       THEN /\ Done(s, Respond(Error("S3Error", <<Txt("Credentials")>>)))
            /\ UNCHANGED loc
       ELSE \E a \in StoreAnswers("head_object", ChallengeKey(loc[s].val)) \cap answers :
               /\ loc' = [loc EXCEPT ![s].store =
                             Append(@, <<"head_object", ChallengeKey(loc[s].val),
                                         IF a = 200 THEN "ok" ELSE "fail", 0>>),
                                     ![s].existed = ChallengeKey(loc[s].val) \in s3]
               /\ IF a = 200
                  THEN Done(s, RespondJson(<<Presigned("GET", ChallengeKey(loc[s].val))>>))
                  ELSE Goto(s, "ch_read")
    /\ UNCHANGED <<cohort, coord, halted, s3, disk, req>>
    /\ Unlock(s)

\* get_challenge_url: get_challenge in a blocking task that owns the read
\* guard.
ChallengeRead(s) ==
    /\ pc[s] = "ch_read"
    /\ Holding(s)
    /\ IF get_challenge(loc[s].val)
       THEN Goto(s, "ch_upload")
       ELSE Done(s, Respond(Error("CoordinatorError", <<Txt("get_challenge")>>)))
    /\ loc' = [loc EXCEPT ![s] = NewLoop(@)]
    /\ UNCHANGED <<cohort, coord, halted, s3, disk, req>>
    /\ Unlock(s)

\* get_challenge_url: S3Ctx::upload_challenge(key, challenge), one request of
\* its put_object loop.
ChallengeUpload(s, answers) ==
    /\ pc[s] = "ch_upload"
    /\ Holding(s)
    /\ \E a \in StoreAnswers("put_object", ChallengeKey(loc[s].val)) \cap answers :
          /\ loc' = [loc EXCEPT ![s] =
                        Requested(@, "put_object", ChallengeKey(loc[s].val), a)]
          /\ CASE RetryDecision(a, loc[s].attempt) = "ok" ->
                     /\ s3' = s3 \cup {ChallengeKey(loc[s].val)}
                     /\ Done(s, RespondJson(<<Presigned("GET", ChallengeKey(loc[s].val))>>))
               [] RetryDecision(a, loc[s].attempt) = "retry" ->
                     /\ Goto(s, "ch_upload")
                     /\ UNCHANGED s3
               [] OTHER ->
                     /\ Done(s, Respond(Error("S3Error", <<Txt("UploadError")>>)))
                     /\ UNCHANGED s3
    /\ UNCHANGED <<cohort, coord, halted, disk, req>>
    /\ Unlock(s)

\* S3Ctx::get_contribution_urls: the presigned URLs of two requests.
get_contribution_urls_get(contrib_key, contrib_sig_key) ==
    <<Presigned("GET", contrib_key), Presigned("GET", contrib_sig_key)>>

get_contribution_urls(contrib_key, contrib_sig_key) ==
    <<Presigned("PUT", contrib_key), Presigned("PUT", contrib_sig_key)>>

\* get_contribution_url: the keys of the round in the body, S3Ctx::new, the
\* URLs.
ContributionUrls(s, ctxOk) ==
    /\ pc[s] = "cu_urls"
    /\ Holding(s)
    /\ IF ~ctxOk
       THEN Done(s, Respond(Error("S3Error", <<Txt("Credentials")>>)))
       ELSE Done(s, RespondJson(get_contribution_urls(ContributionKey(loc[s].val),
                                                      SignatureKey(loc[s].val))))
    /\ UNCHANGED <<cohort, coord, halted, s3, disk, req, loc>>
    /\ Unlock(s)

(* ---------------------------- contributors.json ------------------------ *)

\* The phases of S3Ctx::upload_contributions_info in program order.
PublishPutFirst == <<"pi_put", "pi_delete">>
PublishSteps == <<"pi_delete", "pi_put">>

\* The coordinator calls upload_contributions_info on a free task.
PublishStart(s) ==
    /\ pc[s] = "idle"
    /\ ~halted
    /\ pc' = [pc EXCEPT ![s] = PublishSteps[1]]
    /\ loc' = [loc EXCEPT ![s] = NewLoop(NoLoc)]
    /\ UNCHANGED <<cohort, coord, halted, s3, disk, req, resp, held>>

\* upload_contributions_info: one request of the delete_object loop; after
\* the loop, attempt = 0.
PublishDelete(s, answers) ==
    /\ pc[s] = "pi_delete"
    /\ \E a \in StoreAnswers("delete_object", ContributorsJson) \cap answers :
          CASE RetryDecision(a, loc[s].attempt) = "ok" ->
                  /\ s3' = s3 \ {ContributorsJson}
                  /\ loc' = [loc EXCEPT ![s] =
                        NewLoop(Requested(@, "delete_object", ContributorsJson, a))]
                  /\ Continue(s, StepAfter(PublishSteps, "pi_delete"))
            [] RetryDecision(a, loc[s].attempt) = "retry" ->
                  /\ loc' = [loc EXCEPT ![s] =
                        Requested(@, "delete_object", ContributorsJson, a)]
                  /\ Goto(s, "pi_delete")
                  /\ UNCHANGED s3
            [] OTHER ->
                  /\ loc' = [loc EXCEPT ![s] =
                        Requested(@, "delete_object", ContributorsJson, a)]
                  /\ Done(s, Respond(Error("S3Error", <<Txt("DeleteError")>>)))
                  /\ UNCHANGED s3
    /\ UNCHANGED <<cohort, coord, halted, disk, req, held>>

\* upload_contributions_info: one request of the put_object loop.
PublishPut(s, answers) ==
    /\ pc[s] = "pi_put"
    /\ \E a \in StoreAnswers("put_object", ContributorsJson) \cap answers :
          /\ loc' = [loc EXCEPT ![s] =
                        Requested(@, "put_object", ContributorsJson, a)]
          /\ CASE RetryDecision(a, loc[s].attempt) = "ok" ->
                     /\ s3' = s3 \cup {ContributorsJson}
                     /\ Continue(s, StepAfter(PublishSteps, "pi_put"))
               [] RetryDecision(a, loc[s].attempt) = "retry" ->
                     /\ Goto(s, "pi_put")
                     /\ UNCHANGED s3
               [] OTHER ->
                     /\ Done(s, Respond(Error("S3Error", <<Txt("UploadError")>>)))
                     /\ UNCHANGED s3
    /\ UNCHANGED <<cohort, coord, halted, disk, req, held>>

(* ----------------------------- stop / update --------------------------- *)

\* stop_coordinator: Coordinator::shutdown() under the write lock, then
\* Shutdown::notify() if it returned Ok.
Stop(s, ok) ==
    /\ pc[s] = "st_write"
    /\ Holding(s)
    /\ loc' = [loc EXCEPT ![s].wrote = TRUE, ![s].calls = Append(@, "shutdown")]
    /\ IF ok
       THEN stopped' = TRUE /\ halted' = TRUE /\ Done(s, RespondOk)
       ELSE /\ UNCHANGED <<stopped, halted>>
            /\ Done(s, Respond(Error("ShutdownError", <<Txt("shutdown")>>)))
    /\ UNCHANGED <<cohort, tokens, queue, current, locked, finished, pending, banned,
                   dropped, round, infos, stored, s3, disk, req>>
    /\ Unlock(s)

\* CoordinatorState::queue_contributor_info(p): the queue entry of p with the
\* round assigned to it; add_to_queue assigns none.
queue_contributor_info(p) ==
    IF InQueue(p) THEN Some([round |-> None]) ELSE None

\* get_contributor_queue_status: the position of a queued participant, from
\* the round assigned to it (u64 subtraction) or the size of the queue.
queue_position(info, height, size) ==
    IF info.round # None THEN The(info.round) - height ELSE size

\* get_contributor_queue_status, first read guard, moved into the blocking
\* task: is_current_contributor.
QueueStatusCurrent(s) ==
    /\ pc[s] = "qs_current"
    /\ Holding(s)
    /\ loc' = [loc EXCEPT ![s].calls = Append(@, "is_current_contributor"),
                          ![s].member = InQueue(loc[s].part)
                                        \/ is_current_contributor(loc[s].part)]
    /\ IF is_current_contributor(loc[s].part)
       THEN Done(s, RespondJson(<<"Round">>))
       ELSE Goto(s, "qs_queue")
    /\ UNCHANGED <<cohort, coord, halted, s3, disk, req>>
    /\ Unlock(s)

\* get_contributor_queue_status, second read guard: queue, finished, banned.
QueueStatusQueue(s) ==
    /\ pc[s] = "qs_queue"
    /\ Holding(s)
    /\ loc' = [loc EXCEPT ![s].calls = Append(@, "is_queue_contributor"),
                          ![s].member = loc[s].member
                                        /\ (InQueue(loc[s].part)
                                            \/ is_current_contributor(loc[s].part)),
                          ![s].actRound = round]
    /\ Done(s, RespondJson(
          IF InQueue(loc[s].part)
          THEN IF queue_contributor_info(loc[s].part) = None THEN <<"Other">>
               ELSE <<"Queue",
                      queue_position(The(queue_contributor_info(loc[s].part)),
                                     round, Len(queue)),
                      Len(queue)>>
          ELSE IF is_finished_contributor(loc[s].part) THEN <<"Finished">>
          ELSE IF is_banned_participant(loc[s].part) THEN <<"Banned">>
          ELSE <<"Other">>))
    /\ UNCHANGED <<cohort, coord, halted, s3, disk, req>>
    /\ Unlock(s)

\* Coordinator::update(): the next queued contributor takes the round when the
\* round has no contributor and nothing waits for verification; the round
\* height grows when the previous round was completed.
update_keeps_queue ==
    IF current = None /\ ~pending /\ Len(queue) > 0
       /\ (round = 0 \/ finished # None => round < MaxRound)
    THEN /\ current' = Some(Head(queue).p)
         /\ finished' = None
         /\ round' = IF round = 0 \/ finished # None THEN round + 1 ELSE round
         /\ UNCHANGED queue
    ELSE UNCHANGED <<current, queue, finished, round>>

update ==
    IF current = None /\ ~pending /\ Len(queue) > 0
       /\ (round = 0 \/ finished # None => round < MaxRound)
    THEN /\ current' = Some(Head(queue).p)
         /\ queue' = Tail(queue)
         /\ finished' = None
         /\ round' = IF round = 0 \/ finished # None THEN round + 1 ELSE round
    ELSE UNCHANGED <<current, queue, finished, round>>

\* update_coordinator -> perform_coordinator_update, under the write lock.
UpdateCoordinator(s) ==
    /\ pc[s] = "up_write"
    /\ Holding(s)
    /\ update
    /\ loc' = [loc EXCEPT ![s].wrote = TRUE, ![s].calls = Append(@, "update")]
    /\ Done(s, RespondOk)
    /\ UNCHANGED <<cohort, tokens, locked, pending, banned, dropped, stopped, infos,
                   stored, halted, s3, disk, req>>
    /\ Unlock(s)

\* perform_coordinator_update when the current contributor has sent no
\* heartbeat for the timeout: Coordinator::update() drops it.
UpdateDrops(s) ==
    /\ pc[s] = "up_write"
    /\ Holding(s)
    /\ current # None
    /\ dropped' = dropped \cup current
    /\ current' = None
    /\ locked' = FALSE
    /\ loc' = [loc EXCEPT ![s].wrote = TRUE, ![s].calls = Append(@, "update")]
    /\ Done(s, RespondOk)
    /\ UNCHANGED <<cohort, tokens, queue, finished, pending, banned, round, stopped,
                   infos, stored, halted, s3, disk, req>>
    /\ Unlock(s)

(* -------------------------------- verify ------------------------------- *)

\* perform_verify_chunks: the pending verifications, read under a read lock.
VerifyRead(s) ==
    /\ pc[s] = "vf_read"
    /\ Holding(s)
    /\ IF pending THEN Goto(s, "vf_verify") ELSE Done(s, RespondOk)
    /\ UNCHANGED <<cohort, coord, halted, s3, disk, req, loc>>
    /\ Unlock(s)

\* What Coordinator::default_verify may come to: the verifier accepts the
\* contribution, rejects it, or an I/O or object-store error ends it.
VerifyOutcomes == {"accept", "reject", "transient", "panic"}

\* What default_verify comes to on the contribution of round r: the verifier
\* accepts or rejects what the storage layer holds, an I/O or object-store
\* error ends it (the only outcome when storage holds nothing for the
\* round), or the cryptographic kernel panics.
Verdicts(r) ==
    {"transient", "panic"}
    \cup {IF x.valid THEN "accept" ELSE "reject" : x \in {y \in stored : y.round = r}}

\* perform_verify_chunks: what the match on the result of the blocking task
\* makes of the outcome: Ok(inner) is inner, Err(JoinError) is an Err.
verify_response_propagated(outcome) ==
    CASE outcome = "accept" -> "Ok"
      [] outcome = "panic" -> "JoinError"
      [] OTHER -> "Err"

verify_response(outcome) == IF outcome = "accept" THEN "Ok" ELSE "Err"

\* perform_verify_chunks: Coordinator::default_verify(task) under the write
\* lock; every Err, and a panic of the blocking task, leads to the recovery.
\* The task is the one read at the start: when it is pending no more,
\* default_verify returns Ok or an error.
VerifyTask(s, outcome) ==
    /\ pc[s] = "vf_verify"
    /\ Holding(s)
    /\ pending => outcome \in Verdicts(round)
    /\ ~pending => outcome \in {"accept", "transient"}
    /\ loc' = [loc EXCEPT ![s].wrote = TRUE, ![s].calls = Append(@, "default_verify"),
                          ![s].verdict = IF pending THEN outcome ELSE "stale",
                          ![s].judged = IF pending THEN finished ELSE None]
    /\ IF verify_response(outcome) = "Ok"
       THEN pending' = FALSE /\ Done(s, RespondOk)
       ELSE IF verify_response(outcome) = "JoinError"
       THEN UNCHANGED pending /\ Done(s, Respond(Error("RuntimeError", <<Txt("panicked")>>)))
       ELSE UNCHANGED pending /\ Goto(s, "vf_reset")
    /\ UNCHANGED <<cohort, tokens, queue, current, locked, finished, banned, dropped,
                   round, stopped, infos, stored, halted, s3, disk, req>>
    /\ Unlock(s)

\* The recovery of perform_verify_chunks in program order.
BanThenReset == <<"ban_participant", "reset_round">>
RecoverySteps == <<"reset_round", "ban_participant">>

\* Coordinator::reset_round: the round height after the reset.
reset_round_rollback(h) == h - 1
reset_round_height(h) == h

\* perform_verify_chunks: after a failed verification, under a second write
\* lock: the first finished contributor is taken, then reset_round, then
\* ban_participant; `?` returns the first error.  ban_participant refuses a
\* finished contributor.
VerifyReset(s, resetOk) ==
    /\ pc[s] = "vf_reset"
    /\ Holding(s)
    /\ IF finished = None
       THEN /\ Done(s, Respond(Error("RuntimeError", <<Txt("panicked")>>)))
            /\ loc' = [loc EXCEPT ![s].wrote = TRUE]
            /\ UNCHANGED <<current, locked, finished, pending, banned, stored, round>>
       ELSE IF RecoverySteps[1] = "ban_participant"
       THEN /\ Done(s, Respond(Error("CoordinatorError", <<Txt("ban_participant")>>)))
            /\ loc' = [loc EXCEPT ![s].wrote = TRUE, ![s].target = finished,
                                  ![s].calls = Append(@, "ban_participant")]
            /\ UNCHANGED <<current, locked, finished, pending, banned, stored, round>>
       ELSE IF ~resetOk
       THEN /\ Done(s, Respond(Error("CoordinatorError", <<Txt("reset_round")>>)))
            /\ loc' = [loc EXCEPT ![s].wrote = TRUE, ![s].target = finished,
                                  ![s].calls = Append(@, "reset_round")]
            /\ UNCHANGED <<current, locked, finished, pending, banned, stored, round>>
       ELSE /\ finished' = None
            /\ current' = None
            /\ locked' = FALSE
            /\ pending' = FALSE
            /\ stored' = {x \in stored : x.round # round}
            /\ round' = reset_round_height(round)
            /\ banned' = banned \cup finished
            /\ loc' = [loc EXCEPT ![s].wrote = TRUE, ![s].target = finished,
                                  ![s].calls = @ \o RecoverySteps]
            /\ Done(s, RespondOk)
    /\ UNCHANGED <<cohort, tokens, queue, dropped, stopped, infos, halted,
                   s3, disk, req>>
    /\ Unlock(s)

(* ------------------------------ requests ------------------------------- *)

JsonString(t) == <<Quote>> \o t \o <<Quote>>
JsonBytes(b) == <<"[">> \o b \o <<"]">>
JsonInfo(key, r) == <<"{">> \o key \o <<":">> \o DecStr(r) \o <<"}">>
JsonChunk(r) == <<"<">> \o DecStr(r) \o <<">">>

\* The message a client signs (SignatureHeaders::to_string on the client side).
ClientMessage(ep, key, body) ==
    IF DataType(ep) = "none" THEN key
    ELSE key \o to_header(body).clen \o Base64Encode(Sha256(body))

\* A request as a well-behaved client of the route builds it.
Client(ep, key, body) ==
    [ep     |-> ep,
     pubkey |-> Some(key),
     sig    |-> Some(Sign(key, ClientMessage(ep, key, body))),
     digest |-> IF DataType(ep) = "none" THEN None ELSE Some(to_header(body).digest),
     clen   |-> IF DataType(ep) = "none" THEN None ELSE Some(to_header(body).clen),
     body   |-> body,
     readFails |-> FALSE]

\* One well-formed request per mutating route.
BaseRequests ==
    {Client("join_queue", KeyA, JsonString(TokA)),
     Client("lock_chunk", KeyA, <<>>),
     Client("contribute_chunk", KeyA, JsonChunk(1)),
     Client("heartbeat", KeyA, <<>>),
     Client("contribution_info", KeyA, JsonInfo(KeyA, 1)),
     Client("update_cohorts", VerifierKey, JsonBytes(DecStr(2))),
     Client("stop", VerifierKey, <<>>),
     Client("update", VerifierKey, <<>>),
     Client("verify", VerifierKey, <<>>)}

OtherKey(key) == IF key = KeyA THEN VerifierKey ELSE KeyA

OtherBody == JsonString(TokD)

\* What a faulty or hostile client, or a proxy on the way, may send in place
\* of each header and of the body of request r.
PubkeyChoices(r) == {r.pubkey, None, Some(OtherKey(The(r.pubkey)))}
SigChoices(r) ==
    {r.sig, None,
     Some(Sign(OtherKey(The(r.pubkey)), The(r.sig).msg)),
     Some(Sign(The(r.pubkey), The(r.pubkey))),
     Some(Sign(The(r.pubkey), The(r.pubkey) \o to_header(r.body).clen
                                  \o Base64Encode(Sha256(r.body))))}
DigestChoices(r) ==
    {r.digest, None,
     Some(to_header(r.body).digest),
     Some(to_header(OtherBody).digest),
     Some(<<"s", "h", "a">> \o Base64Encode(Sha256(r.body))),
     Some(<<"m", "d", "5", "=">> \o Base64Encode(Sha256(r.body))),
     Some(<<"s", "h", "a", "-", "2", "5", "6", "=", "!", "!">>)}
ClenChoices(r) ==
    {r.clen, None, Some(<<"x">>), Some(DecStr(Len(r.body))),
     Some(DecStr(IF Len(r.body) > 0 THEN Len(r.body) - 1 ELSE 1))}
BodyChoices(r) == {r.body, OtherBody, r.body \o <<" ">>}

\* How many of its fields t changes with respect to r.
Changes(r, t) ==
      (IF t.pubkey # r.pubkey THEN 1 ELSE 0) + (IF t.sig # r.sig THEN 1 ELSE 0)
    + (IF t.digest # r.digest THEN 1 ELSE 0) + (IF t.clen # r.clen THEN 1 ELSE 0)
    + (IF t.body # r.body THEN 1 ELSE 0) + (IF t.readFails THEN 1 ELSE 0)

Tampered(r) ==
    {t \in [ep : {r.ep}, pubkey : PubkeyChoices(r), sig : SigChoices(r),
            digest : DigestChoices(r), clen : ClenChoices(r),
            body : BodyChoices(r), readFails : BOOLEAN] :
        Changes(r, t) <= 2}

\* Requests of the guard pipeline: every route, headers and body tampered
\* with, and well-formed admissions with tokens of every kind.
GuardRequests ==
    UNION {Tampered(r) : r \in BaseRequests}
    \cup {Client("join_queue", KeyA, JsonString(t)) : t \in {TokC, TokD, TokZ}}

AllTokens == {TokA, TokB, TokC, TokD, TokShort, TokLong, TokZ}

\* Requests of the cohort-token store: well-formed, every token and archive.
TokenRequests ==
    {Client("join_queue", k, JsonString(t)) : k \in {KeyA, KeyB}, t \in AllTokens}
    \cup {Client("update_cohorts", VerifierKey, JsonBytes(DecStr(i))) :
             i \in 1..(Len(Archives) + 1)}

\* Requests that race: two contributors, two tokens, three archives.
RaceRequests ==
    {Client("join_queue", k, JsonString(t)) : k \in {KeyA, KeyB}, t \in {TokA, TokC}}
    \cup {Client("update_cohorts", VerifierKey, JsonBytes(DecStr(i))) : i \in 2..3}

\* Requests of the routes that use the object store, for every round, with
\* the requests that bring a contributor to its round and end it.
StoreRequests ==
    {Client("join_queue", KeyA, JsonString(TokA)),
     Client("lock_chunk", KeyA, <<>>),
     Client("update", VerifierKey, <<>>),
     Client("verify", VerifierKey, <<>>)}
    \cup {Client(ep, KeyA, DecStr(r)) : ep \in {"challenge", "upload_chunk"},
                                         r \in 1..MaxRound}
    \cup {Client("contribute_chunk", KeyA, JsonChunk(r)) : r \in 1..MaxRound}

\* The requests for a challenge, and those that start a contributor's round.
ChallengeRequests ==
    {r \in StoreRequests : r.ep \in {"join_queue", "update", "challenge"}}

\* verify_signature and the data guard on each request of a set.
Signatures(R) == [r \in R |-> verify_signature(r)]
DataGuards(R) == [r \in R |-> from_data(r, DataType(r.ep))]

GuardSignatures == Signatures(GuardRequests)
GuardData == DataGuards(GuardRequests)
TokenSignatures == Signatures(TokenRequests)
TokenData == DataGuards(TokenRequests)
RaceSignatures == Signatures(RaceRequests)
RaceData == DataGuards(RaceRequests)
BaseSignatures == Signatures(BaseRequests)
BaseData == DataGuards(BaseRequests)
StoreSignatures == Signatures(StoreRequests)
StoreData == DataGuards(StoreRequests)

(* --------------------------- specifications ---------------------------- *)

Init ==
    /\ cohort = 0
    /\ tokens = InitialTokens
    /\ queue = <<>>
    /\ current = None
    /\ locked = FALSE
    /\ finished = None
    /\ pending = FALSE
    /\ banned = {}
    /\ dropped = {}
    /\ round = 0
    /\ stopped = FALSE
    /\ halted = FALSE
    /\ infos = {}
    /\ stored = {}
    /\ s3 = {}
    /\ zipFile = [bytes |-> DecStr(1), whole |-> TRUE]
    /\ tokensDir = InitialTokens
    /\ req = [s \in Tasks |-> NoRequest]
    /\ pc = [s \in Tasks |-> "idle"]
    /\ loc = [s \in Tasks |-> NoLoc]
    /\ resp = [s \in Tasks |-> None]
    /\ held = [s \in Tasks |-> "none"]

IoOutcomes == {"open", "write", "extract", "none"}

\* The steps of the handlers of task s; the file system never fails.
Handlers(s) ==
    \/ JoinTokenCheck(s)
    \/ JoinAdd(s)
    \/ UpdateCohortsCheck(s)
    \/ UpdateCohortsPersist(s, "none", TRUE)
    \/ UpdateCohortsInstall(s)
    \/ LockChunk(s)
    \/ ContributeDownload(s, {200, 404}, TRUE)
    \/ ContributeSignature(s, {200, 404})
    \/ \E sigOk \in BOOLEAN, valid \in BOOLEAN : ContributeWrite(s, sigOk, valid)
    \/ Heartbeat(s)
    \/ ContributionInfoCheck(s)
    \/ ContributionInfoWrite(s)
    \/ \E ok \in BOOLEAN : Stop(s, ok)
    \/ UpdateCoordinator(s)
    \/ VerifyRead(s)
    \/ \E outcome \in VerifyOutcomes : VerifyTask(s, outcome)
    \/ \E resetOk \in BOOLEAN : VerifyReset(s, resetOk)
    \/ Acquire(s)

\* Every answer of the object store.
AllAnswers == {200} \cup TransientStatus \cup OtherStatus \cup {NonHttp}

\* The steps of the handlers and of the gateway that use the object store,
\* with those that move a contributor through its round.
StoreHandlers(s) ==
    \/ JoinTokenCheck(s)
    \/ JoinAdd(s)
    \/ LockChunk(s)
    \/ \E ctxOk \in BOOLEAN : ContributeDownload(s, AllAnswers, ctxOk)
    \/ ContributeSignature(s, AllAnswers)
    \/ \E sigOk \in BOOLEAN, valid \in BOOLEAN : ContributeWrite(s, sigOk, valid)
    \/ \E ctxOk \in BOOLEAN : ChallengeHead(s, AllAnswers, ctxOk)
    \/ ChallengeRead(s)
    \/ ChallengeUpload(s, AllAnswers)
    \/ \E ctxOk \in BOOLEAN : ContributionUrls(s, ctxOk)
    \/ PublishDelete(s, AllAnswers)
    \/ PublishPut(s, AllAnswers)
    \/ UpdateCoordinator(s)
    \/ UpdateDrops(s)
    \/ VerifyRead(s)
    \/ \E outcome \in VerifyOutcomes : VerifyTask(s, outcome)
    \/ \E resetOk \in BOOLEAN : VerifyReset(s, resetOk)
    \/ Acquire(s)

\* The steps of get_challenge_url and of the start of a round.
ChallengeHandlers(s) ==
    \/ JoinTokenCheck(s)
    \/ JoinAdd(s)
    \/ UpdateCoordinator(s)
    \/ \E ctxOk \in BOOLEAN : ChallengeHead(s, AllAnswers, ctxOk)
    \/ ChallengeRead(s)
    \/ ChallengeUpload(s, AllAnswers)
    \/ Acquire(s)

\* The steps of the cohort-token handlers of task s; the file system may fail
\* at the steps named in ios.
TokenHandlers(s, ios) ==
    \/ JoinTokenCheck(s)
    \/ JoinAdd(s)
    \/ UpdateCohortsCheck(s)
    \/ \E io \in ios, rmOk \in BOOLEAN : UpdateCohortsPersist(s, io, rmOk)
    \/ UpdateCohortsInstall(s)
    \/ Acquire(s)

\* One task serving tampered requests on every route.
GuardNext ==
    \/ \E r \in GuardRequests : Serve(1, r, GuardSignatures, GuardData)
    \/ Handlers(1)
    \/ Retire(1)
    \/ Upload(1)
    \/ AdvanceCohort

SpecGuards == Init /\ [][GuardNext]_vars

\* One task serving well-formed admission and cohort-update requests.
TokenNext ==
    \/ \E r \in TokenRequests : Serve(1, r, TokenSignatures, TokenData)
    \/ TokenHandlers(1, IoOutcomes)
    \/ Retire(1)
    \/ AdvanceCohort

SpecTokens == Init /\ [][TokenNext]_vars

\* Two tasks racing on admission and cohort updates while the clock runs.
Next ==
    \/ \E s \in Tasks : \E r \in RaceRequests :
           /\ \A t \in Tasks : t < s => pc[t] # "idle"
           /\ Serve(s, r, RaceSignatures, RaceData)
    \/ \E s \in Tasks : TokenHandlers(s, {"none"})
    \/ \E s \in Tasks : Retire(s)
    \/ AdvanceCohort

Spec == Init /\ [][Next]_vars

\* Two tasks serving well-formed requests on every route.
LockNext ==
    \/ \E s \in Tasks : \E r \in BaseRequests :
           /\ \A t \in Tasks : t < s => pc[t] # "idle"
           /\ Serve(s, r, BaseSignatures, BaseData)
    \/ \E s \in Tasks : Handlers(s)
    \/ \E s \in Tasks : Retire(s)
    \/ Upload(1)

SpecLocks == Init /\ [][LockNext]_vars

\* One task on the routes that use the object store, the gateway publishing
\* contributors.json, and contributors uploading.
StoreNext ==
    \/ \E r \in StoreRequests : Serve(1, r, StoreSignatures, StoreData)
    \/ StoreHandlers(1)
    \/ Retire(1)
    \/ PublishStart(1)
    \/ \E r \in 1..MaxRound : Upload(r)

SpecStore == Init /\ [][StoreNext]_vars

\* The requests that run the gateway's retry loops in round 1.
GatewayRequests ==
    {Client("join_queue", KeyA, JsonString(TokA)),
     Client("lock_chunk", KeyA, <<>>),
     Client("update", VerifierKey, <<>>),
     Client("challenge", KeyA, DecStr(1)),
     Client("contribute_chunk", KeyA, JsonChunk(1))}

\* The handlers that reach the object store, and those that make A the
\* contributor of round 1.
GatewayHandlers(s) ==
    \/ JoinTokenCheck(s)
    \/ JoinAdd(s)
    \/ LockChunk(s)
    \/ UpdateCoordinator(s)
    \/ \E ctxOk \in BOOLEAN : ContributeDownload(s, AllAnswers, ctxOk)
    \/ ContributeSignature(s, AllAnswers)
    \/ \E sigOk \in BOOLEAN, valid \in BOOLEAN : ContributeWrite(s, sigOk, valid)
    \/ \E ctxOk \in BOOLEAN : ChallengeHead(s, AllAnswers, ctxOk)
    \/ ChallengeRead(s)
    \/ ChallengeUpload(s, AllAnswers)
    \/ PublishDelete(s, AllAnswers)
    \/ PublishPut(s, AllAnswers)
    \/ Acquire(s)

GatewayNext ==
    \/ \E r \in GatewayRequests : Serve(1, r, StoreSignatures, StoreData)
    \/ GatewayHandlers(1)
    \/ Retire(1)
    \/ PublishStart(1)
    \/ Upload(1)

\* One task running the gateway's operations; the runtime keeps polling the
\* task and the object store answers every request.
SpecGateway == Init /\ [][GatewayNext]_vars /\ WF_vars(GatewayHandlers(1))

\* Two tasks asking for the challenge of every round while the round of one
\* contributor starts.
ChallengeNext ==
    \/ \E s \in Tasks : \E r \in ChallengeRequests :
           /\ \A t \in Tasks : t < s => pc[t] # "idle"
           /\ Serve(s, r, StoreSignatures, StoreData)
    \/ \E s \in Tasks : ChallengeHandlers(s)
    \/ \E s \in Tasks : Retire(s)

SpecChallenge == Init /\ [][ChallengeNext]_vars

\* The same under the runtime's scheduling: a task that can step does, and
\* the lock, which queues its waiters, grants a guard that keeps becoming free.
SpecLocksFair ==
    /\ SpecLocks
    /\ \A s \in Tasks : WF_vars(Handlers(s)) /\ SF_vars(Acquire(s))

\* The requests of a ceremony with two contributors: those of the contributors
\* and those of the periodic driver (update, verify).
ContributorRequests ==
    {Client("join_queue", KeyA, JsonString(TokA)),
     Client("join_queue", KeyB, JsonString(TokB)),
     Client("lock_chunk", KeyA, <<>>),
     Client("contribute_chunk", KeyA, JsonChunk(1))}

DriverRequests ==
    {Client("update", VerifierKey, <<>>), Client("verify", VerifierKey, <<>>)}

TickSignatures == Signatures(ContributorRequests \cup DriverRequests)
TickData == DataGuards(ContributorRequests \cup DriverRequests)

\* The steps of a contributor's round and of the driver's ticks.
TickHandlers(s) ==
    \/ JoinTokenCheck(s)
    \/ JoinAdd(s)
    \/ LockChunk(s)
    \/ ContributeDownload(s, {200, 404}, TRUE)
    \/ ContributeSignature(s, {200, 404})
    \/ \E sigOk \in BOOLEAN, valid \in BOOLEAN : ContributeWrite(s, sigOk, valid)
    \/ UpdateCoordinator(s)
    \/ VerifyRead(s)
    \/ \E outcome \in VerifyOutcomes : VerifyTask(s, outcome)
    \/ \E resetOk \in BOOLEAN : VerifyReset(s, resetOk)
    \/ Acquire(s)

\* Task 1 serves the contributors, task 2 runs the ticks of the driver.
TickNext ==
    \/ \E r \in ContributorRequests : Serve(1, r, TickSignatures, TickData)
    \/ \E r \in DriverRequests : Serve(2, r, TickSignatures, TickData)
    \/ \E s \in Tasks : TickHandlers(s)
    \/ \E s \in Tasks : Retire(s)
    \/ Upload(1)

SpecTicks == Init /\ [][TickNext]_vars

\* The same with the driver ticking for ever: each of update and verify keeps
\* being run, a task that can step does, the lock serves its waiters, and a
\* reset_round that keeps being tried succeeds.
SpecTicksFair ==
    /\ SpecTicks
    /\ \A r \in DriverRequests : SF_vars(Serve(2, r, TickSignatures, TickData))
    /\ \A s \in Tasks :
          /\ WF_vars(TickHandlers(s))
          /\ WF_vars(Retire(s))
          /\ SF_vars(Acquire(s))
          /\ SF_vars(VerifyReset(s, TRUE))

\* Contribution infos with every public key and round, and the requests that
\* make their sender the current contributor.
InfoRequests ==
    {Client("join_queue", KeyA, JsonString(TokA)),
     Client("join_queue", KeyB, JsonString(TokB)),
     Client("lock_chunk", KeyA, <<>>),
     Client("update", VerifierKey, <<>>)}
    \cup {Client("contribution_info", KeyA, JsonInfo(k, r)) :
             k \in {KeyA, KeyB}, r \in 1..MaxRound}

InfoSignatures == Signatures(InfoRequests)
InfoData == DataGuards(InfoRequests)

\* One task serving contribution infos.
InfoNext ==
    \/ \E r \in InfoRequests : Serve(1, r, InfoSignatures, InfoData)
    \/ JoinTokenCheck(1)
    \/ JoinAdd(1)
    \/ LockChunk(1)
    \/ UpdateCoordinator(1)
    \/ ContributionInfoCheck(1)
    \/ ContributionInfoWrite(1)
    \/ Acquire(1)
    \/ Retire(1)

SpecInfo == Init /\ [][InfoNext]_vars

\* Requests whose public keys, content lengths and digests are texts a client
\* is free to send: keys that end in digits, keys that go on as a length and
\* a digest do.
MessageKeys ==
    {KeyA, KeyA \o DecStr(1), KeyA \o DecStr(12),
     KeyA \o DecStr(2) \o Base64Encode(Sha256(<<>>)), KeyB}

MessageRequests ==
    {[ep |-> ep, pubkey |-> Some(k), sig |-> Some(Sign(k, k)), digest |-> d,
      clen |-> c, body |-> <<>>, readFails |-> FALSE] :
        ep \in {"heartbeat", "join_queue"}, k \in MessageKeys,
        d \in {None, Some(to_header(<<>>).digest), Some(to_header(OtherBody).digest)},
        c \in {None, Some(DecStr(2)), Some(DecStr(12)), Some(DecStr(212))}}

\* Two requests arrive.
MessageInit ==
    /\ cohort = 0
    /\ tokens = InitialTokens
    /\ queue = <<>>
    /\ current = None
    /\ locked = FALSE
    /\ finished = None
    /\ pending = FALSE
    /\ banned = {}
    /\ dropped = {}
    /\ round = 0
    /\ stopped = FALSE
    /\ halted = FALSE
    /\ infos = {}
    /\ stored = {}
    /\ s3 = {}
    /\ zipFile = [bytes |-> DecStr(1), whole |-> TRUE]
    /\ tokensDir = InitialTokens
    /\ req \in [Tasks -> MessageRequests]
    /\ pc = [s \in Tasks |-> "idle"]
    /\ loc = [s \in Tasks |-> NoLoc]
    /\ resp = [s \in Tasks |-> None]
    /\ held = [s \in Tasks |-> "none"]

\* verify_signature on the request of task s, up to the message the signature
\* is verified on.
CanonicalMessage(s) ==
    /\ pc[s] = "idle"
    /\ LET h == SignatureHeaders_try_from(req[s])
       IN  IF h.ok
           THEN /\ loc' = [loc EXCEPT ![s].message = to_string(h.v), ![s].entered = TRUE]
                /\ UNCHANGED resp
           ELSE /\ resp' = [resp EXCEPT ![s] = Some(Respond(h.e))]
                /\ UNCHANGED loc
    /\ pc' = [pc EXCEPT ![s] = "done"]
    /\ UNCHANGED <<cohort, coord, halted, s3, disk, req, held>>

MessageNext == \E s \in Tasks : CanonicalMessage(s)

SpecMessage == MessageInit /\ [][MessageNext]_vars

\* The requests of two contributors and of the coordinator's verifier.
RoundRequests ==
    ContributorRequests \cup DriverRequests
    \cup {Client("lock_chunk", KeyB, <<>>),
          Client("contribute_chunk", KeyB, JsonChunk(1))}

RoundSignatures == Signatures(RoundRequests)
RoundData == DataGuards(RoundRequests)

\* Two tasks serving two contributors, update and verify: a verification
\* started by the driver runs beside one started through /verify.
RoundNext ==
    \/ \E s \in Tasks : \E r \in RoundRequests :
           /\ \A t \in Tasks : t < s => pc[t] # "idle"
           /\ Serve(s, r, RoundSignatures, RoundData)
    \/ \E s \in Tasks : TickHandlers(s)
    \/ \E s \in Tasks : Retire(s)
    \/ Upload(1)

SpecRound == Init /\ [][RoundNext]_vars

\* Participants asking for their status while the ceremony goes on.
StatusRequests ==
    {Client("queue_status", KeyA, <<>>), Client("queue_status", KeyB, <<>>)}

StatusSignatures == Signatures(StatusRequests \cup RoundRequests)
StatusData == DataGuards(StatusRequests \cup RoundRequests)

\* Task 1 answers queue_status, task 2 serves the contributors, update and
\* verify.
StatusNext ==
    \/ \E r \in StatusRequests : Serve(1, r, StatusSignatures, StatusData)
    \/ QueueStatusCurrent(1)
    \/ QueueStatusQueue(1)
    \/ Acquire(1)
    \/ \E r \in RoundRequests : Serve(2, r, StatusSignatures, StatusData)
    \/ TickHandlers(2)
    \/ \E s \in Tasks : Retire(s)
    \/ Upload(1)

SpecStatus == Init /\ [][StatusNext]_vars

(* ------------------------- request authentication ---------------------- *)

\* C1: the handler of a mutating route is entered, and the coordinator is
\* mutated, only for a request that carries a pubkey and a signature, the
\* signature verifying under the declared pubkey over the canonical message:
\* the pubkey alone, or, for a POST that declares a body digest, the pubkey
\* followed by the content length and the digest.
C1_HandlerOnlyAfterSignature ==
    \A s \in Tasks :
        (loc[s].entered \/ loc[s].wrote) =>
            /\ req[s].pubkey # None
            /\ req[s].sig # None
            /\ LET key == The(req[s].pubkey)
               IN  IF Method(req[s].ep) = "POST" /\ req[s].digest # None
                   THEN /\ req[s].clen # None
                        /\ ParseUsize(The(req[s].clen)) # None
                        /\ AfterFirst(The(req[s].digest), "=") # None
                        /\ Verify(key,
                                  key \o DecStr(The(ParseUsize(The(req[s].clen))))
                                      \o The(AfterFirst(The(req[s].digest), "=")),
                                  The(req[s].sig))
                   ELSE Verify(key, key, The(req[s].sig))

\* C1 witness: a POST that declares a body digest has passed the guards and
\* its handler has mutated the coordinator.
C1_Witness ==
    \E s \in Tasks :
        /\ loc[s].wrote
        /\ Method(req[s].ep) = "POST"
        /\ req[s].digest # None
        /\ resp[s] = Some(RespondOk)

\* C2: when a request with a body is passed to its handler, the base64 SHA-256
\* of the bytes the server read equals the value after "=" in the Digest
\* header, and the signature covers the pubkey, the content length and that
\* same value; a request answered MismatchingChecksum was correctly signed,
\* had a body whose digest differs from the header, never entered its handler,
\* and a correctly signed request in the right role whose body digest differs
\* is answered MismatchingChecksum, not InvalidSignature.
C2_BodyDigestBound ==
    \A s \in Tasks :
        /\ (loc[s].entered /\ DataType(req[s].ep) # "none") =>
              LET read == loc[s].bytes
                  digest == Base64Encode(Sha256(read))
                  key == The(req[s].pubkey)
              IN  /\ req[s].digest # None
                  /\ req[s].clen # None
                  /\ read = SubSeq(req[s].body, 1, Len(read))
                  /\ AfterFirst(The(req[s].digest), "=") = Some(digest)
                  /\ The(req[s].sig).msg =
                         key \o DecStr(The(ParseUsize(The(req[s].clen)))) \o digest
        /\ (resp[s] # None /\ The(resp[s]).kind = "MismatchingChecksum") =>
              /\ ~loc[s].entered
              /\ verify_signature(req[s]).ok
              /\ LET len == The(ParseUsize(The(req[s].clen)))
                 IN  Some(Base64Encode(Sha256(ReadBody(req[s], len))))
                         # AfterFirst(The(req[s].digest), "=")
        /\ (/\ resp[s] # None
            /\ DataType(req[s].ep) # "none"
            /\ verify_signature(req[s]).ok
            /\ RoleCheck(req[s].ep, The(req[s].pubkey)).code = 0
            /\ from_data(req[s], DataType(req[s].ep)).code = 456) =>
              /\ The(resp[s]).kind = "MismatchingChecksum"
              /\ The(resp[s]).kind # "InvalidSignature"

\* C2 witness: a handler has been entered with a body of which the server
\* read only the declared length, shorter than what was sent.
C2_Witness ==
    \E s \in Tasks :
        /\ loc[s].entered
        /\ DataType(req[s].ep) # "none"
        /\ Len(loc[s].bytes) < Len(req[s].body)

\* The failures of C3: of the signature, of the body's integrity, of the token.
Rejections ==
    {"InvalidSignature", "MissingRequiredHeader", "InvalidHeader",
     "MismatchingChecksum", "InvalidTokenFormat", "InvalidToken", "CeremonyIsOver"}

\* C3: the step that rejects a request for a signature failure, a body
\* integrity failure or a token failure changes nothing of the coordinator,
\* of the disk or of the bucket, and no earlier step of that request did.
C3_RejectionLeavesState ==
    [][\A s \in Tasks :
          (resp[s] = None /\ resp'[s] # None /\ The(resp'[s]).kind \in Rejections) =>
              /\ UNCHANGED <<coord, halted, s3, disk>>
              /\ ~loc[s].wrote
              /\ ~loc'[s].wrote]_vars

\* C3 witness: a well-formed token of an earlier cohort has been refused once
\* the clock has moved on.
C3_Witness ==
    \E s \in Tasks :
        /\ resp[s] # None
        /\ The(resp[s]).kind = "InvalidToken"
        /\ ~loc[s].wrote
        /\ cohort = 1

\* A request with a body that was correctly signed, whose body does not hash
\* to the Digest header, and whose sender is in the wrong role for the route.
BadDigestWrongRole(s) ==
    /\ resp[s] # None
    /\ ~loc[s].entered
    /\ DataType(req[s].ep) # "none"
    /\ verify_signature(req[s]).ok
    /\ from_data(req[s], DataType(req[s].ep)).code = 456
    /\ RoleCheck(req[s].ep, The(req[s].pubkey)).code # 0

\* C4 as stated: a correctly signed request with a body that does not match
\* the Digest header and a sender in the wrong role is rejected with
\* MismatchingChecksum (400), not with UnauthorizedParticipant (401).
C4_IntegrityBeforeRole ==
    \A s \in Tasks :
        BadDigestWrongRole(s) =>
            /\ The(resp[s]).kind = "MismatchingChecksum"
            /\ The(resp[s]).status = 400

\* C4 amended: the guards run in the order signature, role, body integrity; a
\* request whose body does not match the Digest header is rejected with
\* InvalidSignature if its signature fails, else with UnauthorizedParticipant
\* (401) if its sender is in the wrong role, else with MismatchingChecksum
\* (400).
C4_RoleBeforeIntegrity ==
    \A s \in Tasks :
        (/\ resp[s] # None
         /\ ~loc[s].entered
         /\ DataType(req[s].ep) # "none"
         /\ from_data(req[s], DataType(req[s].ep)).code = 456) =>
            IF ~verify_signature(req[s]).ok
            THEN The(resp[s]).kind = "InvalidSignature"
            ELSE IF RoleCheck(req[s].ep, The(req[s].pubkey)).code # 0
            THEN The(resp[s]).kind = "UnauthorizedParticipant" /\ The(resp[s]).status = 401
            ELSE The(resp[s]).kind = "MismatchingChecksum" /\ The(resp[s]).status = 400

\* C4 witness: a correctly signed request with a mismatching body from a
\* sender in the wrong role has been answered.
C4_Witness == \E s \in Tasks : BadDigestWrongRole(s)

(* ------------------------------ cohort tokens -------------------------- *)

\* C5: token_check gives every token exactly one verdict, in this order:
\* InvalidTokenFormat if the token is not exactly 20 hexadecimal digits, else
\* CeremonyIsOver if the current cohort has no token set, else InvalidToken
\* if the token is not in the current cohort's set, else ok; a join_queue
\* goes past token_check iff the token is well formed and in that set.
C5_TokenCheckPrecedence ==
    \A s \in Tasks :
        (req[s].ep = "join_queue" /\ loc[s].entered /\ pc[s] # "jq_token") =>
            LET t == loc[s].val
                wellFormed == Len(t) = 20 /\ \A i \in 1..Len(t) : t[i] \in XDigit
                set == tokens_get(loc[s].chkTokens, loc[s].chkCohort)
                verdict == IF resp[s] = None \/ loc[s].wrote THEN "Ok"
                           ELSE The(resp[s]).kind
            IN  IF ~wellFormed THEN verdict = "InvalidTokenFormat"
                ELSE IF set = None THEN verdict = "CeremonyIsOver"
                ELSE IF t \notin The(set)
                     THEN /\ verdict = "InvalidToken"
                          /\ The(resp[s]).args = <<DecStr(loc[s].chkCohort)>>
                ELSE verdict \in {"Ok", "CoordinatorError"}

\* C5 witness: a malformed token has been refused as InvalidTokenFormat after
\* the last cohort, when no token set is left.
C5_Witness ==
    \E s \in Tasks :
        /\ req[s].ep = "join_queue"
        /\ resp[s] # None
        /\ The(resp[s]).kind = "InvalidTokenFormat"
        /\ tokens_get(tokens, cohort) = None

\* join_queue has admitted the participant of task s.
Admitted(s) ==
    /\ req[s].ep = "join_queue"
    /\ resp[s] = Some(RespondOk)
    /\ loc[s].wrote

\* C6 as stated: whenever join_queue admits a participant, the presented
\* token is in the current cohort's token set at the moment add_to_queue
\* succeeds under the write lock.
C6_TokenCurrentAtAdmission ==
    \A s \in Tasks :
        Admitted(s) =>
            LET set == tokens_get(loc[s].actTokens, loc[s].actCohort)
            IN  set # None /\ loc[s].val \in The(set)

\* C7 as stated: once a participant has been admitted with a token, no other
\* participant presenting the same token in the same cohort is admitted.
C7_TokenSingleUse ==
    \A s \in Tasks : \A t \in Tasks :
        (/\ Admitted(s) /\ Admitted(t)
         /\ loc[s].val = loc[t].val
         /\ loc[s].actCohort = loc[t].actCohort) => loc[s].part = loc[t].part

\* C8: update_cohorts goes past its comparison iff the archive's token set of
\* the current cohort equals the coordinator's; with a valid archive it fails
\* with CeremonyIsOver if the current cohort has no token set, and with
\* InvalidNewTokens if the archive has no entry for the current cohort or
\* the sets differ.  The sets of other cohorts do not enter the verdict.
C8_CurrentCohortDecides ==
    \A s \in Tasks :
        (/\ req[s].ep = "update_cohorts" /\ loc[s].entered /\ pc[s] # "uc_check"
         /\ load_tokens_from_bytes(loc[s].val) # None) =>
            LET new == The(load_tokens_from_bytes(loc[s].val))
                c == loc[s].chkCohort
                old == tokens_get(loc[s].chkTokens, c)
                verdict ==
                    IF resp[s] = None \/ loc[s].files # {} \/ loc[s].installed
                    THEN "Ok"
                    ELSE The(resp[s]).kind
            IN  IF old = None THEN verdict = "CeremonyIsOver"
                ELSE IF c + 1 <= Len(new) /\ new[c + 1] = The(old)
                     THEN verdict \in {"Ok", "IoError"}
                ELSE verdict = "InvalidNewTokens"

\* C8 witness: an archive that changes a later cohort and keeps the current
\* one has passed the comparison.
C8_Witness ==
    \E s \in Tasks :
        /\ req[s].ep = "update_cohorts"
        /\ pc[s] = "uc_persist"
        /\ The(load_tokens_from_bytes(loc[s].val)) # loc[s].chkTokens

\* C9 as stated: after update_cohorts returns success, the token set of the
\* cohort that is current when the new tokens are installed is the set that
\* cohort had before the installation.
C9_CurrentCohortKept ==
    \A s \in Tasks :
        (req[s].ep = "update_cohorts" /\ resp[s] = Some(RespondOk) /\ loc[s].installed) =>
            tokens_get(The(load_tokens_from_bytes(loc[s].val)), loc[s].actCohort)
                = tokens_get(loc[s].actTokens, loc[s].actCohort)

\* C10: the step that rejects update_cohorts with InvalidNewTokens leaves
\* tokens.zip, the token directory and the coordinator's tokens as they
\* were, and no earlier step of that request has written any of them.
C10_RejectedUpdateWritesNothing ==
    [][\A s \in Tasks :
          (/\ resp[s] = None /\ resp'[s] # None
           /\ The(resp'[s]).kind = "InvalidNewTokens") =>
              /\ zipFile' = zipFile
              /\ tokensDir' = tokensDir
              /\ tokens' = tokens
              /\ loc[s].files = {} /\ loc'[s].files = {}
              /\ ~loc[s].installed /\ ~loc'[s].installed]_vars

\* C10 witness: an archive that changes the set of the current cohort has
\* been rejected with InvalidNewTokens.
C10_Witness ==
    \E s \in Tasks :
        /\ req[s].ep = "update_cohorts"
        /\ resp[s] # None
        /\ The(resp[s]).kind = "InvalidNewTokens"
        /\ cohort = 1
        /\ tokensDir = InitialTokens

\* C11 as stated: after every completed update_cohorts call, whatever step it
\* failed at, tokens.zip on disk holds the token sets that are in memory, and
\* the sets in memory were replaced only after the archive was written and
\* extracted.
C11_ArchiveMatchesMemory ==
    \A s \in Tasks :
        (req[s].ep = "update_cohorts" /\ loc[s].entered /\ pc[s] = "done") =>
            /\ zipFile.whole
            /\ load_tokens_from_bytes(zipFile.bytes) = Some(tokens)
            /\ loc[s].installed => loc[s].files = {"zip", "dir"}

(* ------------------------------- admission ----------------------------- *)

\* Task s has answered a join_queue of participant p.
JoinDone(s, p) ==
    /\ req[s].ep = "join_queue"
    /\ pc[s] = "done"
    /\ req[s].pubkey = Some(p)

\* C12: of two join_queue requests of the same participant, in sequence or
\* concurrent, at most one admits; the one refused is answered with an error
\* and has written nothing; when both presented a token valid at its check
\* the participant is in the queue, and never more than once; the step that
\* refuses an admission changes nothing of the coordinator.
C12_AdmissionOnce ==
    /\ [](\A i \in 1..Len(queue) : \A j \in 1..Len(queue) :
             queue[i].p = queue[j].p => i = j)
    /\ [](\A s \in Tasks : \A t \in Tasks : \A p \in {KeyA, KeyB} :
             (s # t /\ JoinDone(s, p) /\ JoinDone(t, p)) =>
                 /\ ~(Admitted(s) /\ Admitted(t))
                 /\ ~Admitted(s) => (The(resp[s]).kind # "Ok" /\ ~loc[s].wrote)
                 /\ (The(resp[s]).kind \in {"Ok", "UnauthorizedParticipant",
                                             "CoordinatorError"}
                     /\ The(resp[t]).kind \in {"Ok", "UnauthorizedParticipant",
                                                "CoordinatorError"}) => InQueue(p))
    /\ [][\A s \in Tasks :
             (/\ req'[s].ep = "join_queue" /\ resp[s] = None /\ resp'[s] # None
              /\ The(resp'[s]).kind # "Ok") => UNCHANGED coord]_vars

\* C12 witness: two concurrent join_queue requests of one participant have
\* both passed the request guard; one was admitted, the other was refused by
\* add_to_queue.
C12_Witness ==
    \E s \in Tasks : \E t \in Tasks :
        /\ s # t
        /\ JoinDone(s, KeyA) /\ JoinDone(t, KeyA)
        /\ Admitted(s)
        /\ The(resp[t]).kind = "CoordinatorError"

(* ------------------------------- ceremony ------------------------------ *)

Participants == {KeyA, KeyB, VerifierKey}

\* In how many of queue, current, finished, dropped and banned p is.
Memberships(p) ==
      (IF InQueue(p) THEN 1 ELSE 0) + (IF current = Some(p) THEN 1 ELSE 0)
    + (IF finished = Some(p) THEN 1 ELSE 0) + (IF p \in dropped THEN 1 ELSE 0)
    + (IF p \in banned THEN 1 ELSE 0)

C15_ResetThenBan ==
    \A s \in Tasks :
        req[s].ep = "verify" =>
            LET c == loc[s].calls
            IN  /\ \A i \in 1..Len(c) :
                       c[i] = "ban_participant" => (i > 1 /\ c[i - 1] = "reset_round")
                /\ (\E i \in 1..Len(c) : c[i] = "ban_participant") =>
                       (loc[s].target # None /\ loc[s].target \subseteq banned)
                /\ (pc[s] = "done" /\ Len(c) > 0 /\ c[Len(c)] = "reset_round") =>
                       /\ The(resp[s]).kind = "CoordinatorError"
                       /\ loc[s].target \cap banned = {}
                       /\ finished = loc[s].target

\* C15 witness: reset_round failed after a failed verification; the call
\* returned the error and the finished contributor is not banned.
C15_Witness ==
    \E s \in Tasks :
        /\ req[s].ep = "verify"
        /\ pc[s] = "done"
        /\ loc[s].calls = <<"default_verify", "reset_round">>
        /\ finished = Some(KeyA)

\* C16 as stated: when default_verify fails for a transient external failure
\* and not for a rejection, the round is not reset, the contributor is not
\* banned and the verification stays pending.
C16_TransientKeepsRound ==
    \A s \in Tasks :
        (req[s].ep = "verify" /\ loc[s].verdict = "transient") =>
            /\ \A i \in 1..Len(loc[s].calls) :
                   loc[s].calls[i] \notin {"reset_round", "ban_participant"}
            /\ pending
            /\ banned = {}

\* C17 as stated: after an authorized /stop the shutdown of the server is
\* notified whether or not Coordinator::shutdown returned an error.
C17_ShutdownProceeds ==
    \A s \in Tasks :
        (req[s].ep = "stop" /\ loc[s].entered /\ pc[s] = "done") => halted

\* C20: in contribute_chunk the write lock is requested only after the
\* download from the object store has succeeded; a request whose download
\* failed has taken no lock, called no coordinator mutation and written
\* nothing, and its sender is still the current contributor.
C20_DownloadBeforeLock ==
    /\ [](\A s \in Tasks :
             req[s].ep = "contribute_chunk" =>
                 /\ loc[s].acquired # <<>> =>
                        (/\ pc[s] \notin {"cc_download", "cc_signature"}
                         /\ ContributionKey(loc[s].val.round_height) \in s3
                         /\ SignatureKey(loc[s].val.round_height) \in s3)
                 /\ (resp[s] # None /\ The(resp[s]).kind = "S3Error") =>
                        /\ loc[s].acquired = <<>>
                        /\ loc[s].calls = <<>>
                        /\ ~loc[s].wrote)
    /\ [][\A s \in Tasks :
             (resp[s] = None /\ resp'[s] # None /\ The(resp'[s]).kind = "S3Error") =>
                 /\ UNCHANGED <<coord, disk>>
                 /\ current' = Some(loc[s].part)]_vars

\* C20 witness: the contribution was not in the object store; the request
\* was answered with the download error and its sender is still current.
C20_Witness ==
    \E s \in Tasks :
        /\ req[s].ep = "contribute_chunk"
        /\ resp[s] # None
        /\ The(resp[s]).kind = "S3Error"
        /\ current = Some(KeyA)
        /\ locked

(* ------------------------------ the RwLock ----------------------------- *)

\* C18: at most one task holds the write guard and no task holds a read
\* guard while one does; every call of a coordinator mutation is made by a
\* task that holds the write guard, and the coordinator changes only in a
\* step of such a task.
C18_WritersExclusive ==
    /\ [](\A s \in Tasks : \A t \in Tasks :
             (s # t /\ held[s] = "write") => held[t] = "none")
    /\ [][\A s \in Tasks :
             (pc[s] # "idle" /\ Len(loc'[s].calls) > Len(loc[s].calls)) =>
                 held[s] = "write"]_vars
    /\ [][coord' # coord => \E s \in Tasks : held[s] = "write" /\ held'[s] = "none"]_vars

\* C18 witness: one task holds the write guard while another stands before
\* a mutation and waits for it.
C18_Witness ==
    \E s \in Tasks : \E t \in Tasks :
        /\ s # t
        /\ held[s] = "write"
        /\ pc[t] \notin {"idle", "done"}
        /\ Lock(pc[t]) = "write"
        /\ held[t] = "none"

\* C19: no task asks for the write guard while it holds a read guard (a task
\* that waits for a guard holds none, and a guard is held only inside a
\* handler step), and under fair scheduling every task that waits for the
\* coordinator's lock gets it.
Waiting(s) ==
    pc[s] \notin {"idle", "done"} /\ Lock(pc[s]) # "none" /\ held[s] # Lock(pc[s])

C19_NoUpgrade ==
    /\ [](\A s \in Tasks :
             /\ Waiting(s) => held[s] = "none"
             /\ held[s] # "none" => pc[s] \notin {"idle", "done"})
    /\ \A s \in Tasks : Waiting(s) ~> ~Waiting(s)

\* C19 witness: update_cohorts holds the write guard for update_tokens after
\* it had taken and dropped a read guard for the comparison, while another
\* request waits for the coordinator.
C19_Witness ==
    \E s \in Tasks : \E t \in Tasks :
        /\ s # t
        /\ pc[s] = "uc_install"
        /\ held[s] = "write"
        /\ loc[s].acquired = <<"read", "write">>
        /\ pc[t] \notin {"idle", "done"}
        /\ Lock(pc[t]) # "none"
        /\ held[t] = "none"

(* --------------------------- error responses --------------------------- *)

\* C28: a request on a route that takes a body, sent without the
\* Content-Length header, is answered with status 411.
C28_LengthRequired ==
    \A s \in Tasks :
        (resp[s] # None /\ DataType(req[s].ep) # "none" /\ req[s].clen = None) =>
            The(resp[s]).status = 411

\* C29: a MismatchingChecksum response carries the digest of the Digest
\* header as expected and the digest the server computed over the body it
\* read as actual.
C29_ExpectedAndActual ==
    \A s \in Tasks :
        (resp[s] # None /\ The(resp[s]).kind = "MismatchingChecksum") =>
            LET len == The(ParseUsize(The(req[s].clen)))
                actual == Base64Encode(Sha256(ReadBody(req[s], len)))
            IN  /\ The(resp[s]).status = 400
                /\ The(resp[s]).args[1] = The(req[s].digest)
                /\ The(resp[s]).args[2] = actual

(* --------------------------- contribution info ------------------------- *)

\* C22: when contribution info is written, its public key is the
\* authenticated participant's, that participant is the current contributor
\* and its round height is the coordinator's round height, all as of the
\* write under the write lock.
C22_InfoValidAtWrite ==
    \A s \in Tasks :
        (pc[s] = "done" /\ loc[s].calls = <<"write_contribution_info",
                                              "update_contribution_summary">>) =>
            /\ loc[s].val.public_key = loc[s].part
            /\ loc[s].actCurrent = Some(loc[s].part)
            /\ loc[s].actRound = loc[s].val.ceremony_round

(* ----------------------------- object store ---------------------------- *)

\* C21: a contribute_chunk request that persisted a contribution downloaded
\* it and its signature from the keys of the coordinator's current round,
\* whatever round_height its body carries.
C21_CurrentRoundKeys ==
    \A s \in Tasks :
        (req[s].ep = "contribute_chunk" /\ Len(loc[s].calls) > 0) =>
            \A i \in DOMAIN loc[s].store :
                loc[s].store[i][2] \in {ContributionKey(round), SignatureKey(round)}

\* The requests that task s has logged, by operation and key: one retry
\* loop each.
Loops(s) == {<<loc[s].store[i][1], loc[s].store[i][2]>> : i \in DOMAIN loc[s].store}

\* C23: no retry loop of the gateway (get_object, upload_challenge, the
\* delete and the put of upload_contributions_info) issues more than 8
\* requests, also when the object store keeps answering a transient status.
C23_AtMostEightRequests ==
    \A s \in Tasks : \A l \in Loops(s) : Sent(loc[s], l[1], l[2]) <= 8

\* The error each gateway request surfaces as.
ErrorOf(op) ==
    CASE op = "get_object" -> Txt("DownloadError")
      [] op = "put_object" -> Txt("UploadError")
      [] op = "delete_object" -> Txt("DeleteError")

\* C24: when the object store answers a loop's request with an error that is
\* not one of the statuses 429, 500, 502, 503, 504, the operation has
\* returned its error on that request: the request is the last one logged,
\* no sleep followed it, and the error is the one of the operation.
C24_OtherErrorsSurface ==
    \A s \in Tasks :
        (loc[s].store # <<>> /\ loc[s].last \notin {200, 429, 500, 502, 503, 504}) =>
            LET n == Len(loc[s].store)
                retries == {i \in 1..n : loc[s].store[i][3] = "retry"}
            IN  /\ pc[s] = "done"
                /\ loc[s].store[n][3] = "fail"
                /\ loc[s].slept = Cardinality(retries)
                /\ n \notin retries
                /\ The(resp[s]).kind = "S3Error"
                /\ The(resp[s]).args = <<ErrorOf(loc[s].store[n][1])>>

\* C24 witness: a loop that had slept and retried on transient answers got
\* an answer of another kind and returned.
C24_Witness ==
    \E s \in Tasks :
        /\ pc[s] = "done"
        /\ loc[s].last \in {403, 404, 0}
        /\ loc[s].slept > 0
        /\ Len(loc[s].store) = loc[s].slept + 1

\* The positions in the log of task s of the requests op on contributors.json.
Published(s, op) ==
    {i \in DOMAIN loc[s].store :
        loc[s].store[i][1] = op /\ loc[s].store[i][2] = ContributorsJson}

\* C25: publishing contributors.json deletes, then puts: a put is sent only
\* after a delete has succeeded, the put loop starts with attempt = 0, and a
\* publication whose delete failed has sent no put and returned DeleteError.
C25_DeleteThenPut ==
    \A s \in Tasks :
        /\ \A i \in Published(s, "put_object") :
              \E j \in Published(s, "delete_object") :
                  j < i /\ loc[s].store[j][3] = "ok"
        /\ (pc[s] = "pi_put" /\ Published(s, "put_object") = {}) => loc[s].attempt = 0
        /\ (\E j \in Published(s, "delete_object") : loc[s].store[j][3] = "fail") =>
              /\ Published(s, "put_object") = {}
              /\ pc[s] = "done"
              /\ The(resp[s]).args = <<Txt("DeleteError")>>

\* C25 witness: a publication whose delete succeeded after retries and whose
\* put then succeeded after retries of its own.
C25_Witness ==
    \E s \in Tasks :
        /\ pc[s] = "done"
        /\ The(resp[s]).kind = "Ok"
        /\ Cardinality(Published(s, "delete_object")) = 3
        /\ Cardinality(Published(s, "put_object")) = 9

\* C26: /upload/chunk with round R in its body takes no lock of its own,
\* sends nothing to the object store, calls no coordinator operation and
\* changes neither coordinator nor store; when it answers Ok the answer is
\* the pair of presigned PUT URLs of round_R/chunk_0/contribution_1.unverified
\* and of the same key with .signature appended.
C26_PureUrlGeneration ==
    /\ [](\A s \in Tasks :
             (req[s].ep = "upload_chunk" /\ loc[s].entered) =>
                 /\ held[s] = "none"
                 /\ loc[s].acquired = <<>>
                 /\ loc[s].store = <<>>
                 /\ loc[s].calls = <<>>
                 /\ ~loc[s].wrote
                 /\ (resp[s] # None /\ The(resp[s]).kind = "Ok") =>
                        LET R == DecStr(The(ParseUsize(req[s].body)))
                            key == <<"round_">> \o R
                                       \o <<"/chunk_0/contribution_1.unverified">>
                        IN  The(resp[s]).args =
                                <<[method |-> "PUT", key |-> key],
                                  [method |-> "PUT", key |-> key \o <<".signature">>]>>)
    /\ [][\A s \in Tasks :
             (pc[s] = "cu_urls" /\ pc'[s] = "done") =>
                 UNCHANGED <<cohort, coord, halted, s3, disk>>]_vars

\* C26 witness: the URLs of round 2 were handed out while the coordinator is
\* in round 1.
C26_Witness ==
    \E s \in Tasks :
        /\ req[s].ep = "upload_chunk"
        /\ resp[s] # None
        /\ The(resp[s]).kind = "Ok"
        /\ The(ParseUsize(req[s].body)) = 2
        /\ round = 1

\* The key of the challenge of the round in the body of request r.
ChallengeOf(r) ==
    <<"round_">> \o DecStr(The(ParseUsize(r.body))) \o <<"/chunk_0/contribution_0.verified">>

Rejected(s, p) ==
    /\ req[s].ep = "verify"
    /\ pc[s] = "vf_reset"
    /\ loc[s].verdict = "reject"
    /\ finished = Some(p)

C32_InvalidInfoClientError ==
    \A s \in Tasks :
        (/\ req[s].ep = "contribution_info"
         /\ loc[s].entered
         /\ pc[s] = "done"
         /\ (loc[s].val.public_key # loc[s].part \/ loc[s].val.ceremony_round # round)) =>
            /\ The(resp[s]).status \in 400..499
            /\ ~loc[s].wrote
            /\ <<loc[s].val.public_key, loc[s].val.ceremony_round>> \notin infos

\* C33: a panic of the verifier inside default_verify ends neither the task
\* nor the server: the step in which it happens drops the write guard and
\* leads to the recovery of a rejection, and the run ends as one does after a
\* rejection: reset_round, then ban_participant on the finished contributor,
\* or the error of reset_round.
C33_PanicIsRejection ==
    /\ [][\A s \in Tasks :
             (loc[s].verdict = "none" /\ loc'[s].verdict = "panic") =>
                 /\ pc'[s] = "vf_reset"
                 /\ resp'[s] = None
                 /\ held[s] = "write" /\ held'[s] = "none"
                 /\ ~halted']_vars
    /\ [](\A s \in Tasks :
             (req[s].ep = "verify" /\ loc[s].verdict = "panic" /\ pc[s] = "done") =>
                 \/ /\ loc[s].calls = <<"default_verify", "reset_round", "ban_participant">>
                    /\ resp[s] = Some(RespondOk)
                    /\ loc[s].target # None /\ loc[s].target \subseteq banned
                    /\ ~pending
                 \/ /\ loc[s].calls = <<"default_verify", "reset_round">>
                    /\ The(resp[s]).kind = "CoordinatorError")

\* C33 witness: the verifier panicked on the contribution of A; the round
\* was reset, A is banned and the next request of the driver is being served.
C33_Witness ==
    /\ banned = {KeyA}
    /\ ~pending
    /\ \E s \in Tasks :
          /\ req[s].ep = "verify"
          /\ loc[s].verdict = "panic"
          /\ pc[s] = "done"
          /\ resp[s] = Some(RespondOk)
          /\ held[s] = "none"

(* ------------------------------- backoff ------------------------------- *)

\* The milliseconds a task slept in the gateway operation on `key`, from the
\* log of its requests.
RECURSIVE SleptOn(_, _)
SleptOn(log, key) ==
    IF log = <<>> THEN 0
    ELSE (IF Head(log)[2] = key THEN Head(log)[4] ELSE 0) + SleptOn(Tail(log), key)

\* The retries of the loop of request i that came before it.
RetriesBefore(log, i) ==
    {j \in 1..(i - 1) : /\ log[j][1] = log[i][1]
                        /\ log[j][2] = log[i][2]
                        /\ log[j][3] = "retry"}

\* The sleep before retry k of a loop is 100 * 2^k milliseconds.
SleepsDouble ==
    \A s \in Tasks : \A i \in DOMAIN loc[s].store :
        loc[s].store[i][3] = "retry" =>
            loc[s].store[i][4] = 100 * 2^Cardinality(RetriesBefore(loc[s].store, i))

\* C34 as stated: the sleep before retry k of a loop is 100 * 2^k
\* milliseconds, and one gateway operation (get_object on a key,
\* upload_challenge, upload_contributions_info) sleeps 25,500 ms at most
\* before it gives up.
C34_OperationSleepsAtMost25s ==
    /\ SleepsDouble
    /\ \A s \in Tasks : \A i \in DOMAIN loc[s].store :
           SleptOn(loc[s].store, loc[s].store[i][2]) <= 25500

(* ----------------------------- signed message --------------------------- *)

\* What the signature of request r is meant to cover: the public key and,
\* with a body, the declared content length and the digest.
Covered(r) ==
    LET h == SignatureHeaders_try_from(r).v IN <<h.pubkey, h.content>>

\* C35 as stated: the signed message is the public key alone without a body,
\* and public key, decimal content length and digest concatenated with one;
\* two requests that differ in public key, content length or digest never
\* have the same message.
C35_MessageUnambiguous ==
    /\ \A s \in Tasks :
          loc[s].entered =>
              LET h == SignatureHeaders_try_from(req[s]).v
              IN  loc[s].message =
                      IF h.content = None THEN h.pubkey
                      ELSE h.pubkey \o DecStr(The(h.content).len) \o The(h.content).digest
    /\ \A s \in Tasks : \A t \in Tasks :
          (loc[s].entered /\ loc[t].entered /\ Covered(req[s]) # Covered(req[t])) =>
              loc[s].message # loc[t].message

(* ------------------------------ admission score ------------------------- *)

\* C36: the queue grows only by the step of a join_queue request that passed
\* the NewParticipant guard and whose token_check returned Ok, and by that
\* request's participant with reliability 10; a join_queue request that was
\* refused by the guard or by token_check has added nobody.
C36_AdmittedAfterBothChecks ==
    /\ [][Len(queue') > Len(queue) =>
             \E s \in Tasks :
                 /\ req[s].ep = "join_queue"
                 /\ pc[s] = "jq_add"
                 /\ loc[s].entered
                 /\ loc[s].chkTokens # <<>>
                 /\ token_check(loc[s].val).ok \/ loc[s].chkTokens # tokens
                        \/ loc[s].chkCohort # cohort
                 /\ loc'[s].calls = <<"add_to_queue">>
                 /\ queue' = Append(queue, [p |-> loc[s].part, score |-> 10])]_vars
    /\ [](\A s \in Tasks :
             (/\ req[s].ep = "join_queue"
              /\ resp[s] # None
              /\ The(resp[s]).kind \in {"UnauthorizedParticipant", "InvalidToken",
                                        "InvalidTokenFormat", "CeremonyIsOver"}) =>
                 /\ ~loc[s].wrote
                 /\ loc[s].calls = <<>>)

\* C36 witness: one participant was admitted with reliability 10, and a
\* request of another with a token of another cohort was refused and added
\* nobody.
C36_Witness ==
    \E s \in Tasks :
        /\ req[s].ep = "join_queue"
        /\ resp[s] # None
        /\ The(resp[s]).kind = "InvalidToken"
        /\ ~InQueue(loc[s].part)
        /\ Len(queue) = 1
        /\ queue[1].score = 10

(* -------------------------- concurrent verification --------------------- *)

\* Whoever a run of perform_verify_chunks bans after a rejection is the
\* contributor whose contribution its verifier rejected.
BannedIsJudged ==
    \A s \in Tasks :
        (/\ req[s].ep = "verify"
         /\ loc[s].verdict = "reject"
         /\ \E i \in 1..Len(loc[s].calls) : loc[s].calls[i] = "ban_participant") =>
            loc[s].target = loc[s].judged

\* C37 as stated: a run of perform_verify_chunks resets the round and bans
\* only after the verifier rejected the contribution of the current round: a
\* run whose task was verified by another run meanwhile resets and bans
\* nobody, and the contributor banned is the one whose contribution was
\* rejected.
C37_BanOnlyRejected ==
    /\ \A s \in Tasks :
          (req[s].ep = "verify" /\ loc[s].verdict = "stale") =>
              \A i \in 1..Len(loc[s].calls) :
                  loc[s].calls[i] \notin {"reset_round", "ban_participant"}
    /\ BannedIsJudged

(* ------------------------------ queue status --------------------------- *)

\* The answer of a finished get_contributor_queue_status.
StatusOf(s) == The(resp[s]).args

\* C38 as stated: a participant who is queued or the current contributor at
\* both of the handler's reads is never reported as Other; a position reported
\* for a queued participant is not negative and, with no round assigned, is
\* the size of the queue.
C38_MemberNeverOther ==
    \A s \in Tasks :
        (req[s].ep = "queue_status" /\ pc[s] = "done" /\ loc[s].entered) =>
            /\ loc[s].member => StatusOf(s)[1] # "Other"
            /\ StatusOf(s)[1] = "Queue" =>
                   /\ StatusOf(s)[2] >= 0
                   /\ StatusOf(s)[2] = StatusOf(s)[3]

(* ------------------------- failed contributions ------------------------ *)

\* Task s returns an error from the blocking task of contribute_chunk.
ContributeFails(s) ==
    /\ req[s].ep = "contribute_chunk"
    /\ pc[s] = "cc_write"
    /\ pc'[s] = "done"
    /\ The(resp'[s]).status # 200

\* C39 as stated: when write_contribution, write_contribution_file_signature
\* or try_contribute fails, the storage holds what it held before the request
\* wrote and the state of the participants is unchanged.
C39_FailedContributionLeavesNothing ==
    [][\A s \in Tasks :
          ContributeFails(s) =>
              /\ stored' = stored
              /\ UNCHANGED <<queue, current, locked, finished, pending, banned,
                             dropped>>]_vars

(* --------------------------- gateway termination ----------------------- *)

\* The steps that are retry loops of the gateway: get_object (contribution,
\* signature), upload_challenge, and the delete and the put of
\* upload_contributions_info.
GatewaySteps == {"cc_download", "cc_signature", "ch_upload", "pi_delete", "pi_put"}

\* Task s gets the answer to a request of a retry loop.
Answered(s) == pc[s] \in GatewaySteps /\ loc'[s].store # loc[s].store

\* A request of a retry loop either is retried, with the counter one higher
\* and within MAX_REQUEST_RETRY, or ends the loop; a loop that ends on a
\* transient answer has used all its retries and returns the error of its
\* operation.
RetryProgress ==
    \A s \in Tasks :
        Answered(s) =>
            LET n == Len(loc'[s].store)
            IN  IF pc'[s] = pc[s]
                THEN /\ loc'[s].attempt = loc[s].attempt + 1
                     /\ loc'[s].attempt <= MAX_REQUEST_RETRY
                ELSE loc'[s].last \in TransientStatus =>
                        /\ loc[s].attempt = MAX_REQUEST_RETRY
                        /\ pc'[s] = "done"
                        /\ The(resp'[s]).kind = "S3Error"
                        /\ The(resp'[s]).args = <<ErrorOf(loc'[s].store[n][1])>>

\* C40: every gateway operation terminates, whatever the object store
\* answers: each retry raises the retry counter, which never passes
\* MAX_REQUEST_RETRY; the exhausted loop returns DownloadError, UploadError or
\* DeleteError; and a task inside a retry loop eventually leaves the loops.
C40_GatewayTerminates ==
    /\ [][RetryProgress]_vars
    /\ \A s \in Tasks : (pc[s] \in GatewaySteps) ~> (pc[s] \notin GatewaySteps)

\* C40 witness: a loop was answered a transient status on every request, used
\* all its retries and returned its error.
C40_Witness ==
    /\ pc[1] = "done"
    /\ loc[1].store # <<>>
    /\ loc[1].attempt = MAX_REQUEST_RETRY
    /\ loc[1].last \in TransientStatus
    /\ The(resp[1]).kind = "S3Error"
    /\ Sent(loc[1], loc[1].store[Len(loc[1].store)][1],
            loc[1].store[Len(loc[1].store)][2]) = MAX_REQUEST_RETRY + 1

=============================================================================
